---- MODULE Spec2Model ----
(***************************************************************************)
(* cannon.js v0.3.3 (build file src/unnamed/part_000): the World stepping  *)
(* pipeline, the rigid body record, the naive broadphase, the first-contact*)
(* impulse and the SPOOK solver.                                           *)
(*                                                                         *)
(* Numbers.  The source computes in IEEE floats (Float32Array storage).    *)
(* They are modelled in fixed point: the integer n stands for n/SCALE, and *)
(* every product and quotient is rounded to the nearest unit.  The three   *)
(* non-finite floats are kept as the values NaN, PInf and NInf, with the   *)
(* IEEE rules for them; signed zeros are not distinguished.                *)
(***************************************************************************)
EXTENDS Integers, Sequences, FiniteSets, TLC

\* ------------------------------------------------------------------------
\* Fixed-point floats
\* ------------------------------------------------------------------------

\* units per 1.0
SCALE == 600

\* the non-finite floats
PInf == 1000000000
NInf == -1000000000
NaN == 2000000000

IsNaN(a) == a = NaN
IsInf(a) == a = PInf \/ a = NInf
IsFinite(a) == ~IsNaN(a) /\ ~IsInf(a)

Abs(a) == IF a < 0 THEN -a ELSE a
Sgn(a) == IF a < 0 THEN -1 ELSE IF a > 0 THEN 1 ELSE 0

\* round n/d (d > 0) to the nearest integer, halves away from zero
RoundDiv(n, d) == Sgn(n) * ((Abs(n) + d \div 2) \div d)

\* the float of the literal p/q
Lit(p, q) == RoundDiv(p * SCALE, q)

\* floor(x*y/SCALE) and the remainder of x*y by SCALE, for x, y >= 0, computed
\* on the SCALE-digits of x and y so that no intermediate product leaves the
\* machine integers
MulFloor(x, y) ==
  (x \div SCALE) * (y \div SCALE) * SCALE + (x \div SCALE) * (y % SCALE)
    + (x % SCALE) * (y \div SCALE) + ((x % SCALE) * (y % SCALE)) \div SCALE
MulRem(x, y) == ((x % SCALE) * (y % SCALE)) % SCALE

\* x*y/SCALE and x*SCALE/y (x >= 0, y > 0) rounded to the nearest unit
MulScale(x, y) == MulFloor(x, y) + (IF 2 * MulRem(x, y) >= SCALE THEN 1 ELSE 0)
DivScale(x, y) == (x \div y) * SCALE + ((x % y) * SCALE + y \div 2) \div y

FNeg(a) == IF IsNaN(a) THEN NaN ELSE -a

FAdd(a, b) ==
  IF IsNaN(a) \/ IsNaN(b) THEN NaN
  ELSE IF IsInf(a) THEN (IF IsInf(b) /\ a # b THEN NaN ELSE a)
  ELSE IF IsInf(b) THEN b
  ELSE a + b

FSub(a, b) == FAdd(a, FNeg(b))

FMul(a, b) ==
  IF IsNaN(a) \/ IsNaN(b) THEN NaN
  ELSE IF IsInf(a) \/ IsInf(b)
       THEN (IF a = 0 \/ b = 0 THEN NaN
             ELSE IF Sgn(a) * Sgn(b) > 0 THEN PInf ELSE NInf)
  ELSE Sgn(a) * Sgn(b) * MulScale(Abs(a), Abs(b))

FDiv(a, b) ==
  IF IsNaN(a) \/ IsNaN(b) THEN NaN
  ELSE IF IsInf(a) THEN (IF IsInf(b) THEN NaN
                         ELSE IF Sgn(a) * (IF b < 0 THEN -1 ELSE 1) > 0
                              THEN PInf ELSE NInf)
  ELSE IF IsInf(b) THEN 0
  ELSE IF b = 0 THEN (IF a = 0 THEN NaN ELSE IF a > 0 THEN PInf ELSE NInf)
  ELSE Sgn(a) * Sgn(b) * DivScale(Abs(a), Abs(b))

\* a < b, a > b, a <= b on floats: false when either side is NaN
FLt(a, b) == ~IsNaN(a) /\ ~IsNaN(b) /\ a < b
FGt(a, b) == FLt(b, a)
FLe(a, b) == ~IsNaN(a) /\ ~IsNaN(b) /\ a <= b

FAbs(a) == IF IsNaN(a) THEN NaN ELSE Abs(a)

\* p*q <= a*SCALE and p*q < a*SCALE, for p, q, a >= 0
ProdLe(p, q, a) == MulFloor(p, q) < a \/ (MulFloor(p, q) = a /\ MulRem(p, q) = 0)
ProdLt(p, q, a) == MulFloor(p, q) < a

\* integer square root by bisection: the r in lo..hi with r*r <= a*SCALE < (r+1)^2
RECURSIVE ISqrtIn(_, _, _)
ISqrtIn(a, lo, hi) ==
  IF lo >= hi THEN lo
  ELSE LET mid == (lo + hi + 1) \div 2
       IN IF ProdLe(mid, mid, a) THEN ISqrtIn(a, mid, hi) ELSE ISqrtIn(a, lo, mid - 1)

\* the bisection's upper end: the root of the largest finite float
ISqrtMax == 774596

\* Math.sqrt, rounded to the nearest unit
FSqrt(a) ==
  IF IsNaN(a) \/ a < 0 THEN NaN
  ELSE IF a = PInf THEN PInf
  ELSE LET Nearest(r) == IF ProdLt(r, r + 1, a) THEN r + 1 ELSE r
       IN Nearest(ISqrtIn(a, 0, ISqrtMax))

\* ------------------------------------------------------------------------
\* Vec3, Quaternion, Mat3
\* ------------------------------------------------------------------------

\* new CANNON.Vec3(x,y,z): x||0.0 turns a NaN (and a missing) argument into 0
Vec3(x, y, z) ==
  [x |-> IF IsNaN(x) THEN 0 ELSE x,
   y |-> IF IsNaN(y) THEN 0 ELSE y,
   z |-> IF IsNaN(z) THEN 0 ELSE z]

\* a.cross(v), written into a fresh target by plain assignment
cross(a, v) ==
  [x |-> FSub(FMul(a.y, v.z), FMul(a.z, v.y)),
   y |-> FSub(FMul(a.z, v.x), FMul(a.x, v.z)),
   z |-> FSub(FMul(a.x, v.y), FMul(a.y, v.x))]

\* a.vadd(v) and a.vsub(v) without a target: a new Vec3, a itself is unchanged
vadd(a, v) == Vec3(FAdd(a.x, v.x), FAdd(a.y, v.y), FAdd(a.z, v.z))
vsub(a, v) == Vec3(FSub(a.x, v.x), FSub(a.y, v.y), FSub(a.z, v.z))

dot(a, v) == FAdd(FAdd(FMul(a.x, v.x), FMul(a.y, v.y)), FMul(a.z, v.z))

norm(a) == FSqrt(FAdd(FAdd(FMul(a.x, a.x), FMul(a.y, a.y)), FMul(a.z, a.z)))

\* a.normalize(): the vector a becomes
normalize(a) ==
  LET Scaled(n) ==
        IF FGt(n, 0) THEN [x |-> FDiv(a.x, n), y |-> FDiv(a.y, n), z |-> FDiv(a.z, n)]
        ELSE [x |-> 0, y |-> 0, z |-> 0]
  IN Scaled(norm(a))

\* a.mult(scalar)
mult(a, scalar) == [x |-> FMul(scalar, a.x), y |-> FMul(scalar, a.y), z |-> FMul(scalar, a.z)]

negate(a) == [x |-> FNeg(a.x), y |-> FNeg(a.y), z |-> FNeg(a.z)]

Quaternion(x, y, z, w) == [x |-> x, y |-> y, z |-> z, w |-> w]

\* a.mult(q) for quaternions
qmult(a, q) ==
  LET Product(va, vb, vaxvb) ==
        [w |-> FSub(FMul(a.w, q.w), dot(va, vb)),
         x |-> FAdd(FAdd(FMul(a.w, vb.x), FMul(q.w, va.x)), vaxvb.x),
         y |-> FAdd(FAdd(FMul(a.w, vb.y), FMul(q.w, va.y)), vaxvb.y),
         z |-> FAdd(FAdd(FMul(a.w, vb.z), FMul(q.w, va.z)), vaxvb.z)]
  IN Product(Vec3(a.x, a.y, a.z), Vec3(q.x, q.y, q.z),
             cross(Vec3(a.x, a.y, a.z), Vec3(q.x, q.y, q.z)))

\* q.normalize(): the quaternion q becomes
qnormalize(q) ==
  LET Scaled(l, li) ==
        IF l = 0 THEN [x |-> 0, y |-> 0, z |-> 0, w |-> 0]
        ELSE [x |-> FMul(q.x, li), y |-> FMul(q.y, li), z |-> FMul(q.z, li),
              w |-> FMul(q.w, li)]
      Length(l) == Scaled(l, FDiv(SCALE, l))
  IN Length(FSqrt(FAdd(FAdd(FAdd(FMul(q.x, q.x), FMul(q.y, q.y)), FMul(q.z, q.z)),
                       FMul(q.w, q.w))))

\* q.vmult(v): rotate v by q
qvmult(q, v) ==
  LET nx == FNeg(q.x)
      ny == FNeg(q.y)
      nz == FNeg(q.z)
      Rotated(ix, iy, iz, iw) ==
        [x |-> FSub(FAdd(FAdd(FMul(ix, q.w), FMul(iw, nx)), FMul(iy, nz)), FMul(iz, ny)),
         y |-> FSub(FAdd(FAdd(FMul(iy, q.w), FMul(iw, ny)), FMul(iz, nx)), FMul(ix, nz)),
         z |-> FSub(FAdd(FAdd(FMul(iz, q.w), FMul(iw, nz)), FMul(ix, ny)), FMul(iy, nx))]
  IN Rotated(FSub(FAdd(FMul(q.w, v.x), FMul(q.y, v.z)), FMul(q.z, v.y)),
             FSub(FAdd(FMul(q.w, v.y), FMul(q.z, v.x)), FMul(q.x, v.z)),
             FSub(FAdd(FMul(q.w, v.z), FMul(q.x, v.y)), FMul(q.y, v.x)),
             FSub(FSub(FMul(FNeg(q.x), v.x), FMul(q.y, v.y)), FMul(q.z, v.z)))

\* Mat3.solve, Gauss elimination over eqns (3 rows of 4, eqns[column + 4*row]).
\* Row i has a zero pivot: add the first later row with a non-zero entry in
\* column i, and store the sum's first three entries at eqns[i+4*0..2].
RECURSIVE SolvePivot(_, _, _)
SolvePivot(eqns, i, j) ==
  IF j >= 3 THEN eqns
  ELSE IF eqns[i + 4 * j] # 0
       THEN LET els == [p \in 0..3 |-> FAdd(eqns[p + 4 * i], eqns[p + 4 * j])]
            IN [eqns EXCEPT ![i] = els[0], ![i + 4] = els[1], ![i + 8] = els[2]]
       ELSE SolvePivot(eqns, i, j + 1)

\* Row i has a non-zero pivot: eliminate column i from the rows below; the
\* reduced row j is stored at eqns[j+4*0..2].
RECURSIVE SolveEliminate(_, _, _)
SolveEliminate(eqns, i, j) ==
  IF j >= 3 THEN eqns
  ELSE LET multiplier == FDiv(eqns[i + 4 * j], eqns[i + 4 * i])
           els == [p \in 0..3 |->
                     IF p <= i THEN 0
                     ELSE FSub(eqns[p + 4 * j], FMul(eqns[p + 4 * i], multiplier))]
       IN SolveEliminate([eqns EXCEPT ![j] = els[0], ![j + 4] = els[1], ![j + 8] = els[2]],
                         i, j + 1)

RECURSIVE SolveGauss(_, _)
SolveGauss(eqns, i) ==
  IF i >= 3 THEN eqns
  ELSE LET Eliminated(e1) ==
             IF e1[i + 4 * i] # 0 THEN SolveEliminate(e1, i, i + 1) ELSE e1
       IN SolveGauss(Eliminated(IF eqns[i + 4 * i] = 0 THEN SolvePivot(eqns, i, i + 1)
                                ELSE eqns), i + 1)

\* A.solve(b) for the Mat3 with the nine elements A (elements[i+3*j]):
\* [threw |-> TRUE] when the result holds a NaN or +Infinity, else the x.
solve(A, b) ==
  LET eqns0 == [k \in 0..11 |->
                  IF k % 4 = 3
                  THEN (IF k = 3 THEN b.x ELSE IF k = 7 THEN b.y ELSE b.z)
                  ELSE A[(k % 4) + 3 * (k \div 4)]]
      Target(tx, ty, tz) ==
        IF IsNaN(tx) \/ IsNaN(ty) \/ IsNaN(tz) \/ tx = PInf \/ ty = PInf \/ tz = PInf
        THEN [threw |-> TRUE, x |-> 0, y |-> 0, z |-> 0]
        ELSE [threw |-> FALSE, x |-> tx, y |-> ty, z |-> tz]
      BackX(eqns, ty, tz) ==
        Target(FDiv(FSub(FSub(eqns[3], FMul(eqns[2], tz)), FMul(eqns[1], ty)), eqns[0]),
               ty, tz)
      BackY(eqns, tz) == BackX(eqns, FDiv(FSub(eqns[7], FMul(eqns[6], tz)), eqns[5]), tz)
      BackZ(eqns) == BackY(eqns, FDiv(eqns[11], eqns[10]))
  IN BackZ(SolveGauss(eqns0, 0))

\* ------------------------------------------------------------------------
\* Shapes
\* ------------------------------------------------------------------------

\* CANNON.Shape.types
SPHERE == 1
PLANE == 2
BOX == 4

\* new CANNON.Sphere(radius)
Sphere(radius) == [type |-> SPHERE, radius |-> radius]

\* new CANNON.Plane(normal): the normal is normalized in place
Plane(normal) == [type |-> PLANE, normal |-> normalize(normal)]

\* new CANNON.Box(halfExtents)
Box(halfExtents) == [type |-> BOX, halfExtents |-> halfExtents]

\* shape.calculateLocalInertia(mass)
calculateLocalInertia(shape, mass) ==
  IF shape.type = SPHERE
  THEN LET I == FDiv(FMul(FMul(FMul(Lit(2, 1), mass), shape.radius), shape.radius),
                     Lit(5, 1))
       IN [x |-> I, y |-> I, z |-> I]
  ELSE IF shape.type = BOX
  THEN LET h == shape.halfExtents
           k == FMul(FDiv(Lit(1, 1), Lit(12, 1)), mass)
       IN [x |-> FMul(k, FAdd(FMul(h.y, h.y), FMul(h.z, h.z))),
           y |-> FMul(k, FAdd(FMul(h.x, h.x), FMul(h.z, h.z))),
           z |-> FMul(k, FAdd(FMul(h.y, h.y), FMul(h.x, h.x)))]
  ELSE Vec3(0, 0, 0)

\* ------------------------------------------------------------------------
\* State
\* ------------------------------------------------------------------------

VARIABLES
  worlds,   \* the World objects: world id -> its fields
  bodies,   \* the RigidBody objects, in order of construction
  world,    \* the World the global name `world` is bound to (step reads it)
  call,     \* the last call: its name, whether it threw, what it returned
  steps,    \* per world, the calls of step made on it while it was not paused
  sets      \* the calls of setters made so far on bodies

vars == <<worlds, bodies, world, call, steps, sets>>

\* the arrays of a world are indexed from 0
Arr(n, v) == [i \in 0..(n - 1) |-> v]
PushBlank(a, v) == [i \in 0..Cardinality(DOMAIN a) |-> IF i \in DOMAIN a THEN a[i] ELSE 0]
Push(a, v) == [i \in 0..Cardinality(DOMAIN a) |-> IF i \in DOMAIN a THEN a[i] ELSE v]
ArrLen(a) == Cardinality(DOMAIN a)

\* Solver.reset(numbodies): the row lists are emptied; the scratch velocities
\* are reallocated (zeroed) only when numbodies is not 0
SolverReset(sv, numbodies) ==
  LET s1 == [sv EXCEPT !.G = <<>>, !.MinvTrace = <<>>, !.Fext = <<>>, !.q = <<>>,
                       !.qdot = <<>>, !.n = 0, !.upper = <<>>, !.lower = <<>>,
                       !.hasupper = <<>>, !.haslower = <<>>, !.i = <<>>, !.j = <<>>]
  IN IF numbodies # 0
     THEN [s1 EXCEPT !.vxlambda = Arr(numbodies, 0), !.vylambda = Arr(numbodies, 0),
                     !.vzlambda = Arr(numbodies, 0), !.wxlambda = Arr(numbodies, 0),
                     !.wylambda = Arr(numbodies, 0), !.wzlambda = Arr(numbodies, 0)]
     ELSE s1

\* World(): spook_k and spook_d
spook_k == 3000
spook_d == 3
\* the solver's timestep h = 1.0/60.0
SolverH == Lit(1, 60)
\* spook_a(h) = 4/(h*(1+4d)), spook_b = 4d/(1+4d), spook_eps(h) = 4/(h*h*k*(1+4d)),
\* at h = 1/60; evaluated on the exact values, then rounded to a float once
spook_a == Lit(4 * 60, 1 + 4 * spook_d)
spook_b == Lit(4 * spook_d, 1 + 4 * spook_d)
spook_eps == Lit(4 * 60 * 60, spook_k * (1 + 4 * spook_d))
\* the sweeps World() asks of its solver
SolverIter == 5

\* new CANNON.Solver(a,b,eps,k,d,iter,h)
Solver(a, b, eps, k, d, iter, h) ==
  SolverReset([iter |-> iter, h |-> h, a |-> a, b |-> b, eps |-> eps, k |-> k, d |-> d,
               G |-> <<>>, MinvTrace |-> <<>>, Fext |-> <<>>, q |-> <<>>, qdot |-> <<>>,
               n |-> 0, upper |-> <<>>, lower |-> <<>>, hasupper |-> <<>>,
               haslower |-> <<>>, i |-> <<>>, j |-> <<>>,
               vxlambda |-> <<>>, vylambda |-> <<>>, vzlambda |-> <<>>,
               wxlambda |-> <<>>, wylambda |-> <<>>, wzlambda |-> <<>>], 0)

\* new CANNON.World(), then world.broadphase(bp) and world.gravity(g).
\* The arrays do not exist before the first add: they are modelled empty.
World(bp, g) ==
  [paused |-> FALSE, time |-> 0, stepnumber |-> 0,
   solver |-> Solver(spook_a, spook_b, spook_eps, spook_k, spook_d, SolverIter, SolverH),
   _broadphase |-> bp, gravity |-> g,
   x |-> <<>>, y |-> <<>>, z |-> <<>>, vx |-> <<>>, vy |-> <<>>, vz |-> <<>>,
   fx |-> <<>>, fy |-> <<>>, fz |-> <<>>, taux |-> <<>>, tauy |-> <<>>, tauz |-> <<>>,
   wx |-> <<>>, wy |-> <<>>, wz |-> <<>>, qx |-> <<>>, qy |-> <<>>, qz |-> <<>>,
   qw |-> <<>>, type |-> <<>>, body |-> <<>>, fixed |-> <<>>, mass |-> <<>>,
   inertiax |-> <<>>, inertiay |-> <<>>, inertiaz |-> <<>>, invm |-> <<>>,
   collision_matrix |-> <<>>]

\* new CANNON.RigidBody(mass, shape)
RigidBody(mass, shape) ==
  [_position |-> Vec3(0, 0, 0), _velocity |-> Vec3(0, 0, 0), _force |-> Vec3(0, 0, 0),
   _tau |-> Vec3(0, 0, 0), _quaternion |-> Quaternion(SCALE, 0, 0, 0),
   _rotvelo |-> Vec3(0, 0, 0), _mass |-> mass, _shape |-> shape,
   _inertia |-> calculateLocalInertia(shape, mass), _world |-> 0, _id |-> -1]

\* World.numObjects
numObjects(w) == ArrLen(w.x)

\* World.clearCollisionState(body) on the world record w, for body._id = i
clearCollisionState(w, i) ==
  LET n == numObjects(w)
  IN [w EXCEPT !.collision_matrix =
        [c \in DOMAIN w.collision_matrix |->
           IF \E idx \in 0..(n - 1) :
                c = (IF i > idx THEN idx + i * n ELSE i + idx * n)
           THEN 0 ELSE w.collision_matrix[c]]]

\* an add that lets the old entries of the collision matrix stand
addKeepingMatrix(w, b, body) ==
  [w EXCEPT
     !.x = Push(@, body._position.x), !.y = Push(@, body._position.y),
     !.z = Push(@, body._position.z),
     !.vx = Push(@, body._velocity.x), !.vy = Push(@, body._velocity.y),
     !.vz = Push(@, body._velocity.z),
     !.fx = Push(@, body._force.x), !.fy = Push(@, body._force.y),
     !.fz = Push(@, body._force.z),
     !.taux = Push(@, body._tau.x), !.tauy = Push(@, body._tau.y),
     !.tauz = Push(@, body._tau.z),
     !.wx = Push(@, body._rotvelo.x), !.wy = Push(@, body._rotvelo.y),
     !.wz = Push(@, body._rotvelo.z),
     !.qx = Push(@, body._quaternion.x), !.qy = Push(@, body._quaternion.y),
     !.qz = Push(@, body._quaternion.z), !.qw = Push(@, body._quaternion.w),
     !.type = Push(@, body._shape.type),
     !.body = Push(@, b),
     !.fixed = Push(@, IF FLe(body._mass, 0) THEN 1 ELSE 0),
     !.invm = Push(@, IF FGt(body._mass, 0) THEN FDiv(SCALE, body._mass) ELSE 0),
     !.mass = Push(@, body._mass),
     !.inertiax = Push(@, body._inertia.x), !.inertiay = Push(@, body._inertia.y),
     !.inertiaz = Push(@, body._inertia.z),
     !.collision_matrix = [k \in 0..((numObjects(w) + 1) * (numObjects(w) + 1) - 1) |->
                            IF k \in DOMAIN @ THEN @[k] ELSE 0]]

\* World.add(body) on the world record w: every array is reallocated one longer,
\* the old entries are copied, slot n takes the body's in-record state, and the
\* collision matrix is reallocated (all zero). b is the body's handle.
add(w, b, body) ==
  [w EXCEPT
     !.x = Push(@, body._position.x), !.y = Push(@, body._position.y),
     !.z = Push(@, body._position.z),
     !.vx = Push(@, body._velocity.x), !.vy = Push(@, body._velocity.y),
     !.vz = Push(@, body._velocity.z),
     !.fx = Push(@, body._force.x), !.fy = Push(@, body._force.y),
     !.fz = Push(@, body._force.z),
     !.taux = Push(@, body._tau.x), !.tauy = Push(@, body._tau.y),
     !.tauz = Push(@, body._tau.z),
     !.wx = Push(@, body._rotvelo.x), !.wy = Push(@, body._rotvelo.y),
     !.wz = Push(@, body._rotvelo.z),
     !.qx = Push(@, body._quaternion.x), !.qy = Push(@, body._quaternion.y),
     !.qz = Push(@, body._quaternion.z), !.qw = Push(@, body._quaternion.w),
     !.type = Push(@, body._shape.type),
     !.body = Push(@, b),
     !.fixed = Push(@, IF FLe(body._mass, 0) THEN 1 ELSE 0),
     !.invm = Push(@, IF FGt(body._mass, 0) THEN FDiv(SCALE, body._mass) ELSE 0),
     !.mass = Push(@, body._mass),
     !.inertiax = Push(@, body._inertia.x), !.inertiay = Push(@, body._inertia.y),
     !.inertiaz = Push(@, body._inertia.z),
     !.collision_matrix = Arr((numObjects(w) + 1) * (numObjects(w) + 1), 0)]

\* ------------------------------------------------------------------------
\* RigidBody getters and setters.  A setter gives the new <<worlds, bodies>>;
\* a getter gives [threw, value].  b is the body's handle.
\* ------------------------------------------------------------------------

Attached(bs, b) == bs[b]._id # -1

\* RigidBody.mass(m), the setter
setMass(ws, bs, b, m) ==
  IF Attached(bs, b)
  THEN <<[ws EXCEPT ![bs[b]._world].mass[bs[b]._id] = m,
                    ![bs[b]._world].invm[bs[b]._id] = FDiv(SCALE, m)], bs>>
  ELSE <<ws, [bs EXCEPT ![b]._mass = m]>>

setPosition(ws, bs, b, v) ==
  IF Attached(bs, b)
  THEN LET W == bs[b]._world
           id == bs[b]._id
           w1 == [ws[W] EXCEPT !.x[id] = v.x, !.y[id] = v.y, !.z[id] = v.z]
       IN <<[ws EXCEPT ![W] = clearCollisionState(w1, id)], bs>>
  ELSE <<ws, [bs EXCEPT ![b]._position = v]>>

getPosition(ws, bs, b) ==
  IF Attached(bs, b)
  THEN LET w == ws[bs[b]._world]
           id == bs[b]._id
       IN [threw |-> FALSE, value |-> [x |-> w.x[id], y |-> w.y[id], z |-> w.z[id]]]
  ELSE [threw |-> FALSE, value |-> bs[b]._position]

setOrientation(ws, bs, b, q) ==
  LET qn == qnormalize(q)
  IN IF Attached(bs, b)
     THEN <<[ws EXCEPT ![bs[b]._world].qx[bs[b]._id] = qn.x,
                       ![bs[b]._world].qy[bs[b]._id] = qn.y,
                       ![bs[b]._world].qz[bs[b]._id] = qn.z,
                       ![bs[b]._world].qw[bs[b]._id] = qn.w], bs>>
     ELSE <<ws, [bs EXCEPT ![b]._quaternion = qn]>>

getOrientation(ws, bs, b) ==
  IF Attached(bs, b)
  THEN LET w == ws[bs[b]._world]
           id == bs[b]._id
       IN [threw |-> FALSE,
           value |-> qnormalize(Quaternion(w.qx[id], w.qy[id], w.qz[id], w.qw[id]))]
  ELSE [threw |-> FALSE, value |-> qnormalize(bs[b]._quaternion)]

setVelocity(ws, bs, b, v) ==
  IF Attached(bs, b)
  THEN <<[ws EXCEPT ![bs[b]._world].vx[bs[b]._id] = v.x,
                    ![bs[b]._world].vy[bs[b]._id] = v.y,
                    ![bs[b]._world].vz[bs[b]._id] = v.z], bs>>
  ELSE <<ws, [bs EXCEPT ![b]._velocity = v]>>

\* the attached branch reads world.x, world.y, world.z
getVelocity(ws, bs, b) ==
  IF Attached(bs, b)
  THEN LET w == ws[bs[b]._world]
           id == bs[b]._id
       IN [threw |-> FALSE, value |-> [x |-> w.x[id], y |-> w.y[id], z |-> w.z[id]]]
  ELSE [threw |-> FALSE, value |-> bs[b]._velocity]

setAngularVelocity(ws, bs, b, v) ==
  IF Attached(bs, b)
  THEN <<[ws EXCEPT ![bs[b]._world].wx[bs[b]._id] = v.x,
                    ![bs[b]._world].wy[bs[b]._id] = v.y,
                    ![bs[b]._world].wz[bs[b]._id] = v.z], bs>>
  ELSE <<ws, [bs EXCEPT ![b]._rotvelo = v]>>

getAngularvelocity(ws, bs, b) ==
  IF Attached(bs, b)
  THEN LET w == ws[bs[b]._world]
           id == bs[b]._id
       IN [threw |-> FALSE, value |-> [x |-> w.wx[id], y |-> w.wy[id], z |-> w.wz[id]]]
  ELSE [threw |-> FALSE, value |-> bs[b]._rotvelo]

setForce(ws, bs, b, v) ==
  IF Attached(bs, b)
  THEN <<[ws EXCEPT ![bs[b]._world].fx[bs[b]._id] = v.x,
                    ![bs[b]._world].fy[bs[b]._id] = v.y,
                    ![bs[b]._world].fz[bs[b]._id] = v.z], bs>>
  ELSE <<ws, [bs EXCEPT ![b]._force = v]>>

getForce(ws, bs, b) ==
  IF Attached(bs, b)
  THEN LET w == ws[bs[b]._world]
           id == bs[b]._id
       IN [threw |-> FALSE, value |-> [x |-> w.fx[id], y |-> w.fy[id], z |-> w.fz[id]]]
  ELSE [threw |-> FALSE, value |-> bs[b]._force]

setTorque(ws, bs, b, v) ==
  IF Attached(bs, b)
  THEN <<[ws EXCEPT ![bs[b]._world].taux[bs[b]._id] = v.x,
                    ![bs[b]._world].tauy[bs[b]._id] = v.y,
                    ![bs[b]._world].tauz[bs[b]._id] = v.z], bs>>
  ELSE <<ws, [bs EXCEPT ![b]._tau = v]>>

\* the detached branch reads this._torque, a field no RigidBody has (the
\* constructor and setTorque use this._tau): reading its .x throws a TypeError
getTorque(ws, bs, b) ==
  IF Attached(bs, b)
  THEN LET w == ws[bs[b]._world]
           id == bs[b]._id
       IN [threw |-> FALSE,
           value |-> [x |-> w.taux[id], y |-> w.tauy[id], z |-> w.tauz[id]]]
  ELSE [threw |-> TRUE, value |-> Vec3(0, 0, 0)]

\* ------------------------------------------------------------------------
\* Broadphase
\* ------------------------------------------------------------------------

BroadphaseNeverThrows(w) == FALSE

\* Broadphase.prototype.collisionPairs, the base class's, throws; the call of
\* collisionPairs step makes on the broadphase of the world record w throws
\* when that broadphase is an instance of the base class
BroadphaseThrows(w) == w._broadphase = "Broadphase"

\* a broadphase test that finds no pair
BroadphaseMiss(w, bs, i, j) == FALSE

\* the test NaiveBroadphase.collisionPairs makes for bodies i and j of w
BroadphaseHit(w, bs, i, j) ==
  LET type == w.type
      shape(k) == bs[w.body[k]]._shape
  IN IF type[i] = SPHERE /\ type[j] = SPHERE
     THEN LET r2 == FAdd(shape(i).radius, shape(j).radius)
          IN /\ FLt(FAbs(FSub(w.x[i], w.x[j])), r2)
             /\ FLt(FAbs(FSub(w.y[i], w.y[j])), r2)
             /\ FLt(FAbs(FSub(w.z[i], w.z[j])), r2)
     ELSE IF (type[i] = SPHERE /\ type[j] = PLANE) \/ (type[i] = PLANE /\ type[j] = SPHERE)
     THEN LET si == IF type[i] = SPHERE THEN i ELSE j
              pi == IF type[i] = PLANE THEN i ELSE j
              r == Vec3(FSub(w.x[si], w.x[pi]), FSub(w.y[si], w.y[pi]),
                        FSub(w.z[si], w.z[pi]))
              q == FSub(dot(r, shape(pi).normal), shape(si).radius)
          IN FLt(q, 0)
     ELSE IF (type[i] = BOX /\ type[j] = PLANE) \/ (type[i] = PLANE /\ type[j] = BOX)
     THEN LET bi == IF type[i] = BOX THEN i ELSE j
              pi == IF type[i] = PLANE THEN i ELSE j
              r == Vec3(FSub(w.x[bi], w.x[pi]), FSub(w.y[bi], w.y[pi]),
                        FSub(w.z[bi], w.z[pi]))
              d == dot(r, shape(pi).normal)
              boundingRadius == norm(shape(bi).halfExtents)
              q == FSub(d, boundingRadius)
          IN FLt(q, 0)
     ELSE FALSE

\* the double loop of collisionPairs from (i, j) on: pairs1 and pairs2
RECURSIVE PairLoop(_, _, _, _, _)
PairLoop(w, bs, i, j, acc) ==
  IF i >= numObjects(w) THEN acc
  ELSE IF j >= i THEN PairLoop(w, bs, i + 1, 0, acc)
  ELSE PairLoop(w, bs, i, j + 1,
                IF BroadphaseHit(w, bs, i, j)
                THEN [p1 |-> Append(acc.p1, i), p2 |-> Append(acc.p2, j)]
                ELSE acc)

\* collisionPairs with its two lists returned in the other order
collisionPairsSwapped(w, bs) ==
  [p1 |-> PairLoop(w, bs, 0, 0, [p1 |-> <<>>, p2 |-> <<>>]).p2,
   p2 |-> PairLoop(w, bs, 0, 0, [p1 |-> <<>>, p2 |-> <<>>]).p1]

\* NaiveBroadphase.collisionPairs for the world w: [pairs1, pairs2]
collisionPairs(w, bs) == PairLoop(w, bs, 0, 0, [p1 |-> <<>>, p2 |-> <<>>])

\* ------------------------------------------------------------------------
\* Solver
\* ------------------------------------------------------------------------

\* a.push(t[1]), ..., a.push(t[Len(t)])
PushAll(a, t) ==
  [k \in 0..(ArrLen(a) + Len(t) - 1) |-> IF k < ArrLen(a) THEN a[k] ELSE t[k - ArrLen(a) + 1]]

\* twelve copies of v
Twelve(v) == [k \in 1..12 |-> v]

\* isNaN(v) for a bound: the string 'inf' converts to NaN, which is how a
\* bound given as 'inf' is stored here
StrInf == NaN

\* t put in front of the array a
UnshiftAll(a, t) ==
  [k \in 0..(ArrLen(a) + Len(t) - 1) |-> IF k < Len(t) THEN t[k + 1] ELSE a[k - Len(t)]]

\* an addConstraint that puts the new row in front of the rows
addConstraintInFront(sv, G, MinvTrace, q, qdot, Fext, lower, upper, body_i, body_j) ==
  [sv EXCEPT !.q = UnshiftAll(@, q), !.qdot = UnshiftAll(@, qdot),
             !.MinvTrace = UnshiftAll(@, MinvTrace), !.G = UnshiftAll(@, G),
             !.Fext = UnshiftAll(@, Fext),
             !.upper = UnshiftAll(@, Twelve(upper)),
             !.hasupper = UnshiftAll(@, Twelve(~IsNaN(upper))),
             !.lower = UnshiftAll(@, Twelve(lower)),
             !.haslower = UnshiftAll(@, Twelve(~IsNaN(lower))),
             !.i = UnshiftAll(@, <<body_i>>), !.j = UnshiftAll(@, <<body_j>>),
             !.n = @ + 1]

\* Solver.addConstraint: the five 12-vectors are appended to the flat row
\* arrays; upper, lower, hasupper and haslower get twelve entries per row
addConstraint(sv, G, MinvTrace, q, qdot, Fext, lower, upper, body_i, body_j) ==
  [sv EXCEPT !.q = PushAll(@, q), !.qdot = PushAll(@, qdot),
             !.MinvTrace = PushAll(@, MinvTrace), !.G = PushAll(@, G),
             !.Fext = PushAll(@, Fext),
             !.upper = PushAll(@, Twelve(upper)),
             !.hasupper = PushAll(@, Twelve(~IsNaN(upper))),
             !.lower = PushAll(@, Twelve(lower)),
             !.haslower = PushAll(@, Twelve(~IsNaN(lower))),
             !.i = Push(@, body_i), !.j = Push(@, body_j),
             !.n = @ + 1]

\* the sum over the twelve entries of row l of term[l12 + i], i ascending
RECURSIVE RowSum(_, _, _)
RowSum(term, l12, i) ==
  IF i < 0 THEN 0 ELSE FAdd(RowSum(term, l12, i - 1), term[l12 + i])

\* the entries of row l in the flat row arrays
RowEntries(l) == (12 * l)..(12 * l + 11)

\* c[l] and B[l], precomputed on the first visit of row l
RowC(sv, l) ==
  LET t == [k \in RowEntries(l) |-> FMul(FMul(sv.G[k], sv.MinvTrace[k]), sv.G[k])]
  IN FDiv(SCALE, FAdd(RowSum(t, 12 * l, 11), sv.eps))

RowB(sv, l) ==
  LET tq == [k \in RowEntries(l) |-> FMul(sv.G[k], sv.q[k])]
      tw == [k \in RowEntries(l) |-> FMul(sv.G[k], sv.qdot[k])]
      tf == [k \in RowEntries(l) |-> FMul(FMul(sv.G[k], sv.MinvTrace[k]), sv.Fext[k])]
  IN FSub(FSub(FMul(FNeg(sv.a), RowSum(tq, 12 * l, 11)),
               FMul(sv.b, RowSum(tw, 12 * l, 11))),
          FMul(sv.h, RowSum(tf, 12 * l, 11)))

\* the clamp of Solver.solve for row l: the new lambda[l] and dlambda[l], given
\* lambda[l] after the addition of dlambda.  The lower branch assigns lambda[l]
\* first and takes dlambda from the assigned value; the upper branch tests the
\* array this.hasupper itself (always truthy) and does the same.
Clamp(sv, l, lam, dlam) ==
  LET Upper(lo) ==
        IF FGt(lo.lambda, sv.upper[l])
        THEN [lambda |-> sv.upper[l], dlambda |-> FSub(sv.upper[l], sv.upper[l])]
        ELSE lo
  IN Upper(IF sv.haslower[l] /\ FLt(lam, sv.lower[l])
           THEN [lambda |-> sv.lower[l], dlambda |-> FSub(sv.lower[l], sv.lower[l])]
           ELSE [lambda |-> lam, dlambda |-> dlam])

\* Gulambda of row l: G times the scratch velocities of the two bodies
Gulambda(sv, st, l, body_i, body_j) ==
  LET l12 == 12 * l
      G == sv.G
  IN FAdd(FAdd(FAdd(FAdd(FAdd(FAdd(FAdd(FAdd(FAdd(FAdd(FAdd(FAdd(0,
          FMul(G[0 + l12], st.vxlambda[body_i])),
          FMul(G[1 + l12], st.vylambda[body_i])),
          FMul(G[2 + l12], st.vzlambda[body_i])),
          FMul(G[3 + l12], st.wxlambda[body_i])),
          FMul(G[4 + l12], st.wylambda[body_i])),
          FMul(G[5 + l12], st.wzlambda[body_i])),
          FMul(G[6 + l12], st.vxlambda[body_j])),
          FMul(G[7 + l12], st.vylambda[body_j])),
          FMul(G[8 + l12], st.vzlambda[body_j])),
          FMul(G[9 + l12], st.wxlambda[body_j])),
          FMul(G[10 + l12], st.wylambda[body_j])),
          FMul(G[11 + l12], st.wzlambda[body_j]))

\* one row update of Solver.solve: st holds lambda and the scratch velocities
SolveRow(sv, st, l) ==
  LET body_i == sv.i[l]
      body_j == sv.j[l]
      l12 == 12 * l
      Up(a, b, k, dl) ==
        [a EXCEPT ![b] = FAdd(@, FMul(FMul(dl, sv.MinvTrace[l12 + k]), sv.G[l12 + k]))]
      Added(cl, dl) ==
        [lambda |-> [st.lambda EXCEPT ![l] = cl.lambda],
         vxlambda |-> Up(Up(st.vxlambda, body_i, 0, dl), body_j, 6, dl),
         vylambda |-> Up(Up(st.vylambda, body_i, 1, dl), body_j, 7, dl),
         vzlambda |-> Up(Up(st.vzlambda, body_i, 2, dl), body_j, 8, dl),
         wxlambda |-> Up(Up(st.wxlambda, body_i, 3, dl), body_j, 9, dl),
         wylambda |-> Up(Up(st.wylambda, body_i, 4, dl), body_j, 10, dl),
         wzlambda |-> Up(Up(st.wzlambda, body_i, 5, dl), body_j, 11, dl)]
      Clamped(cl) == Added(cl, cl.dlambda)
      Delta(d0) == Clamped(Clamp(sv, l, FAdd(st.lambda[l], d0), d0))
  IN Delta(FMul(RowC(sv, l),
                FSub(FSub(RowB(sv, l), Gulambda(sv, st, l, body_i, body_j)),
                     FMul(sv.eps, st.lambda[l]))))

\* the sweeps of Solver.solve from sweep k, row l on (with no row, lambda is
\* empty and there is nothing to sweep)
RECURSIVE SolveSweeps(_, _, _, _)
SolveSweeps(sv, st, k, l) ==
  IF k >= sv.iter \/ ArrLen(st.lambda) = 0 THEN st
  ELSE IF l >= sv.n THEN SolveSweeps(sv, st, k + 1, 0)
  ELSE SolveSweeps(sv, SolveRow(sv, st, l), k, l + 1)

\* Solver.solve: the solver with its scratch velocities set
SolverSolve(sv) ==
  LET Stored(st) ==
        [sv EXCEPT !.vxlambda = st.vxlambda, !.vylambda = st.vylambda,
                   !.vzlambda = st.vzlambda, !.wxlambda = st.wxlambda,
                   !.wylambda = st.wylambda, !.wzlambda = st.wzlambda]
  IN Stored(SolveSweeps(sv, [lambda |-> Arr(sv.n, 0),
                             vxlambda |-> sv.vxlambda, vylambda |-> sv.vylambda,
                             vzlambda |-> sv.vzlambda, wxlambda |-> sv.wxlambda,
                             wylambda |-> sv.wylambda, wzlambda |-> sv.wzlambda], 0, 0))

\* lambda and the scratch velocities as Solver.solve finds them on entry
SolveStart(sv) ==
  [lambda |-> Arr(sv.n, 0),
   vxlambda |-> sv.vxlambda, vylambda |-> sv.vylambda, vzlambda |-> sv.vzlambda,
   wxlambda |-> sv.wxlambda, wylambda |-> sv.wylambda, wzlambda |-> sv.wzlambda]

\* the row updates Solver.solve makes from sweep k, row l on, in the order it
\* makes them: sweep, row, and lambda and the scratch velocities before and
\* after the update
RECURSIVE SolveTrace(_, _, _, _, _)
SolveTrace(sv, st, k, l, tr) ==
  IF k >= sv.iter \/ ArrLen(st.lambda) = 0 \/ Len(tr) < 0 THEN tr
  ELSE IF l >= sv.n THEN SolveTrace(sv, st, k + 1, 0, tr)
  ELSE LET Updated(st2) ==
             SolveTrace(sv, st2, k, l + 1,
                        Append(tr, [k |-> k, l |-> l, before |-> st, after |-> st2]))
       IN Updated(SolveRow(sv, st, l))

\* ------------------------------------------------------------------------
\* World._addImpulse and World.step
\* ------------------------------------------------------------------------

\* World._addImpulse(i,j,ri,rj,ui,ni,e,mu) on the world T of the heap ws:
\* [threw, ws].  K is the diagonal matrix of invm[i]+invm[j] (the inertia terms
\* are computed but not subtracted); mu is overwritten by 0, so the friction
\* branch is never taken; the angular update is commented out in the source.
addImpulse(ws, T, i, j, ri, rj, ui, ni, e, mu) ==
  LET w == ws[T]
      im == FAdd(w.invm[i], w.invm[j])
      K == [k \in 0..8 |-> IF k \in {0, 4, 8} THEN im ELSE 0]
      v_f == mult(ni, FMul(FNeg(e), dot(ui, ni)))
      imi == w.invm[i]
      imj == w.invm[j]
      Stored(vxi, vyi, vzi, vxj, vyj, vzj) ==
        [threw |-> FALSE,
         ws |-> [ws EXCEPT ![T].vx = [[@ EXCEPT ![i] = vxi] EXCEPT ![j] = vxj],
                           ![T].vy = [[@ EXCEPT ![i] = vyi] EXCEPT ![j] = vyj],
                           ![T].vz = [[@ EXCEPT ![i] = vzi] EXCEPT ![j] = vzj]]]
      Second(J, vxi, vyi, vzi) ==
        Stored(vxi, vyi, vzi,
               FSub(w.vx[j], FSub(FMul(J.x, imj), FSub(vxi, ui.x))),
               FSub(w.vy[j], FSub(FMul(J.y, imj), FSub(vyi, ui.y))),
               FSub(w.vz[j], FSub(FMul(J.z, imj), FSub(vzi, ui.z))))
      First(J) ==
        IF J.threw THEN [threw |-> TRUE, ws |-> ws]
        ELSE Second(J, FAdd(w.vx[i], FSub(FMul(J.x, imi), FSub(w.vx[j], ui.x))),
                       FAdd(w.vy[i], FSub(FMul(J.y, imi), FSub(w.vy[j], ui.y))),
                       FAdd(w.vz[i], FSub(FMul(J.z, imi), FSub(w.vz[j], ui.z))))
  IN First(solve(K, vsub(v_f, ui)))

\* cmatrix with its two triangles exchanged
cmatrixIndexSwapped(i, j, which, n) ==
  IF (which = 0 /\ i < j) \/ (which = -1 /\ i > j) THEN i + j * n ELSE j + i * n

\* the index cmatrix(i,j,which) addresses in collision_matrix, for n bodies:
\* which = 0 is the current step, which = -1 the previous one
cmatrixIndex(i, j, which, n) ==
  IF (which = 0 /\ i < j) \/ (which = -1 /\ i > j) THEN j + i * n ELSE i + j * n

\* cmatrix(i,j,which) and cmatrix(i,j,which,newval) on the world record w
cmatrix(w, i, j, which) == w.collision_matrix[cmatrixIndex(i, j, which, numObjects(w))]
cmatrixSet(w, i, j, which, newval) ==
  [w EXCEPT !.collision_matrix[cmatrixIndex(i, j, which, numObjects(w))] = newval]

\* the transfer left out: the contact bits stay where the last step wrote them
TransferHistoryOmitted(w, i, j) == w

\* the transfer without its second statement: the current bit is copied and stays
RECURSIVE TransferHistoryKeeping(_, _, _)
TransferHistoryKeeping(w, i, j) ==
  IF i >= numObjects(w) THEN w
  ELSE IF j >= i THEN TransferHistoryKeeping(w, i + 1, 0)
  ELSE TransferHistoryKeeping(cmatrixSet(w, i, j, -1, cmatrix(w, i, j, 0)), i, j + 1)

\* step: "Begin with transferring old contact data to the right place"
RECURSIVE TransferHistory(_, _, _)
TransferHistory(w, i, j) ==
  IF i >= numObjects(w) THEN w
  ELSE IF j >= i THEN TransferHistory(w, i + 1, 0)
  ELSE TransferHistory(cmatrixSet(cmatrixSet(w, i, j, -1, cmatrix(w, i, j, 0)), i, j, 0, 0),
                       i, j + 1)

\* step: "Add gravity to all objects", on the world record g
AddGravity(g) ==
  [g EXCEPT !.fx = [i \in DOMAIN @ |-> FAdd(@[i], FMul(g.gravity.x, g.mass[i]))],
            !.fy = [i \in DOMAIN @ |-> FAdd(@[i], FMul(g.gravity.y, g.mass[i]))],
            !.fz = [i \in DOMAIN @ |-> FAdd(@[i], FMul(g.gravity.z, g.mass[i]))]]

\* the restitution and friction step passes to _addImpulse
Restitution == Lit(1, 2)
Friction == Lit(3, 10)

\* The pair loop of step works on m = [ws, threw, log]: the heap of worlds, whether
\* a call has thrown, and the calls made so far to _addImpulse and addConstraint
\* (kind, the pair's bodies, the previous-step bit read).  this is world T; the
\* arrays step reads through the global name `world` are those of world Gl.
Logged(m, kind, i, j, prev) ==
  Append(m.log, [kind |-> kind, i |-> i, j |-> j, prev |-> prev])

\* step, sphere-plane pair (si, pi), once n, rsi, rj and the penetration vector
\* qvec are computed
SpherePlaneContact(m, T, Gl, si, pi, n, rsi, rj, qvec) ==
  LET ws1 == [m.ws EXCEPT ![T] = cmatrixSet(@, si, pi, 0, 1)]
      g1 == ws1[Gl]
      v_sphere == Vec3(g1.vx[si], g1.vy[si], g1.vz[si])
      u == v_sphere
      prev == cmatrix(ws1[T], si, pi, -1)
      iM == g1.invm[si]
      iI == IF FGt(g1.inertiax[si], 0) THEN FDiv(SCALE, g1.inertiax[si]) ELSE 0
      Impulse(imp) ==
        [ws |-> imp.ws, threw |-> imp.threw, log |-> Logged(m, "impulse", si, pi, prev)]
  IN IF ~FLt(dot(qvec, n), 0) THEN m
     ELSE IF prev = 0
     THEN Impulse(addImpulse(ws1, T, si, pi, rsi, rj, u, n, Restitution, Friction))
     ELSE IF prev = 1
     THEN [ws |-> [ws1 EXCEPT ![T].solver =
                     addConstraint(@,
                       <<FNeg(n.x), FNeg(n.y), FNeg(n.z), 0, 0, 0, 0, 0, 0, 0, 0, 0>>,
                       <<iM, iM, iM, iI, iI, iI, 0, 0, 0, 0, 0, 0>>,
                       <<FNeg(qvec.x), FNeg(qvec.y), FNeg(qvec.z), 0, 0, 0, 0, 0, 0, 0, 0, 0>>,
                       <<v_sphere.x, v_sphere.y, v_sphere.z, 0, 0, 0, 0, 0, 0, 0, 0, 0>>,
                       <<g1.fx[si], g1.fy[si], g1.fz[si],
                         g1.taux[si], g1.tauy[si], g1.tauz[si],
                         g1.fx[pi], g1.fy[pi], g1.fz[pi],
                         g1.taux[pi], g1.tauy[pi], g1.tauz[pi]>>,
                       0, StrInf, si, pi)],
           threw |-> FALSE, log |-> Logged(m, "row", si, pi, prev)]
     ELSE [m EXCEPT !.ws = ws1]

\* step, sphere-plane pair (i, j)
SpherePlane(m, bs, T, Gl, i, j) ==
  LET g == m.ws[Gl]
      si == IF g.type[i] = SPHERE THEN i ELSE j
      pi == IF g.type[i] = SPHERE THEN j ELSE i
      point_on_plane_to_sphere ==
        Vec3(FSub(g.x[si], g.x[pi]), FSub(g.y[si], g.y[pi]), FSub(g.z[si], g.z[pi]))
      xs == Vec3(g.x[si], g.y[si], g.z[si])
      Projected(n, rsi, xp) ==
        SpherePlaneContact(m, T, Gl, si, pi, n, rsi,
          Vec3(FSub(xp.x, g.x[pi]), FSub(xp.y, g.y[pi]), FSub(xp.z, g.z[pi])),
          Vec3(FSub(FSub(xp.x, g.x[si]), rsi.x), FSub(FSub(xp.y, g.y[si]), rsi.y),
               FSub(FSub(xp.z, g.z[si]), rsi.z)))
      Normal(n) ==
        Projected(n, mult(n, bs[g.body[si]]._shape.radius),
                  vsub(xs, mult(n, dot(n, point_on_plane_to_sphere))))
  IN Normal(negate(bs[g.body[pi]]._shape.normal))

\* step, sphere-sphere pair (i, j), once ri, rj, ni and the penetration vector
\* q_vec are computed
SphereSphereContact(m, T, Gl, i, j, ri, rj, ni, q_vec) ==
  LET ws1 == [m.ws EXCEPT ![T] = cmatrixSet(@, i, j, 0, 1)]
      g1 == ws1[Gl]
      v_sphere_i == Vec3(g1.vx[i], g1.vy[i], g1.vz[i])
      v_sphere_j == Vec3(g1.vx[j], g1.vy[j], g1.vz[j])
      u == vsub(v_sphere_j, v_sphere_i)
      prev == cmatrix(ws1[T], i, j, -1)
      Impulse(imp) ==
        [ws |-> imp.ws, threw |-> imp.threw, log |-> Logged(m, "impulse", i, j, prev)]
      Row(iM_i, iI_i, iM_j, iI_j) ==
        [ws |-> [ws1 EXCEPT ![T].solver =
                   addConstraint(@,
                     <<FNeg(ni.x), FNeg(ni.y), FNeg(ni.z), 0, 0, 0, ni.x, ni.y, ni.z, 0, 0, 0>>,
                     <<iM_i, iM_i, iM_i, iI_i, iI_i, iI_i, iM_j, iM_j, iM_j, iI_j, iI_j, iI_j>>,
                     <<FNeg(q_vec.x), FNeg(q_vec.y), FNeg(q_vec.z), 0, 0, 0,
                       q_vec.x, q_vec.y, q_vec.z, 0, 0, 0>>,
                     <<g1.vx[i], g1.vy[i], g1.vz[i], 0, 0, 0, g1.vx[j], g1.vy[j], g1.vz[j],
                       0, 0, 0>>,
                     <<g1.fx[i], g1.fy[i], g1.fz[i], g1.taux[i], g1.tauy[i], g1.tauz[i],
                       g1.fx[j], g1.fy[j], g1.fz[j], g1.taux[j], g1.tauy[j], g1.tauz[j]>>,
                     0, StrInf, i, j)],
         threw |-> FALSE, log |-> Logged(m, "row", i, j, prev)]
  IN IF ~FLt(dot(q_vec, ni), 0) THEN m
     ELSE IF prev = 0
     THEN Impulse(addImpulse(ws1, T, i, j, ri, rj, u, ni, Restitution, Friction))
     ELSE Row(IF g1.fixed[i] = 0 THEN g1.invm[i] ELSE 0,
              IF g1.fixed[i] = 0 THEN FDiv(SCALE, g1.inertiax[i]) ELSE 0,
              IF g1.fixed[j] = 0 THEN g1.invm[j] ELSE 0,
              IF g1.fixed[j] = 0 THEN FDiv(SCALE, g1.inertiax[j]) ELSE 0)

\* step, sphere-sphere pair (i, j)
SphereSphere(m, bs, T, Gl, i, j) ==
  LET g == m.ws[Gl]
      ri0 == Vec3(FSub(g.x[j], g.x[i]), FSub(g.y[j], g.y[i]), FSub(g.z[j], g.z[i]))
      rj0 == Vec3(FSub(g.x[i], g.x[j]), FSub(g.y[i], g.y[j]), FSub(g.z[i], g.z[j]))
      Radii(ri, rj, ni) ==
        SphereSphereContact(m, T, Gl, i, j, ri, rj, ni,
          Vec3(FSub(FSub(FAdd(g.x[j], rj.x), g.x[i]), ri.x),
               FSub(FSub(FAdd(g.y[j], rj.y), g.y[i]), ri.y),
               FSub(FSub(FAdd(g.z[j], rj.z), g.z[i]), ri.z)))
  IN Radii(mult(normalize(ri0), bs[g.body[i]]._shape.radius),
           mult(normalize(rj0), bs[g.body[j]]._shape.radius),
           normalize(Vec3(FSub(g.x[j], g.x[i]), FSub(g.y[j], g.y[i]),
                          FSub(g.z[j], g.z[i]))))

\* the eight corners step lists for a box of half extents ex, in its order
Corners(ex) ==
  <<Vec3(ex.x, ex.y, ex.z), Vec3(FNeg(ex.x), ex.y, ex.z),
    Vec3(FNeg(ex.x), FNeg(ex.y), ex.z), Vec3(FNeg(ex.x), FNeg(ex.y), FNeg(ex.z)),
    Vec3(ex.x, FNeg(ex.y), FNeg(ex.z)), Vec3(ex.x, ex.y, FNeg(ex.z)),
    Vec3(FNeg(ex.x), ex.y, FNeg(ex.z)), Vec3(ex.x, FNeg(ex.y), ex.z)>>

\* the corner loop's bound on numcontacts: the loop goes on while numcontacts <= 4
MaxCornerContacts == 4

\* step, box-plane pair: the row added for a corner ri that is below the plane
CornerRow(m, T, Gl, bi, pi, n, rixn, worldInertia, qvec) ==
  LET g == m.ws[Gl]
      iM == g.invm[bi]
  IN [ws |-> [m.ws EXCEPT ![T].solver =
                addConstraint(@,
                  <<FNeg(n.x), FNeg(n.y), FNeg(n.z),
                    FNeg(rixn.x), FNeg(rixn.y), FNeg(rixn.z), 0, 0, 0, 0, 0, 0>>,
                  <<iM, iM, iM, FDiv(SCALE, worldInertia.x), FDiv(SCALE, worldInertia.y),
                    FDiv(SCALE, worldInertia.z), 0, 0, 0, 0, 0, 0>>,
                  <<FNeg(qvec.x), FNeg(qvec.y), FNeg(qvec.z), 0, 0, 0, 0, 0, 0, 0, 0, 0>>,
                  <<g.vx[bi], g.vy[bi], g.vz[bi], g.wx[bi], g.wy[bi], g.wz[bi],
                    0, 0, 0, 0, 0, 0>>,
                  <<g.fx[bi], g.fy[bi], g.fz[bi], g.taux[bi], g.tauy[bi], g.tauz[bi],
                    g.fx[pi], g.fy[pi], g.fz[pi], g.taux[pi], g.tauy[pi], g.tauz[pi]>>,
                  0, StrInf, bi, pi)],
      threw |-> FALSE, log |-> Logged(m, "row", bi, pi, -1)]

\* step, box-plane pair: the corner loop from corner idx (counted from 1 here);
\* quat is the box's normalized orientation, worldInertia its rotated inertia
RECURSIVE BoxCorners(_, _, _, _, _, _, _, _, _, _)
BoxCorners(m, bs, T, Gl, bi, pi, quat, worldInertia, idx, numcontacts) ==
  IF ~(idx <= 8 /\ numcontacts <= MaxCornerContacts) \/ m.threw THEN m
  ELSE
    LET g == m.ws[Gl]
        n == negate(bs[g.body[pi]]._shape.normal)
        xi == Vec3(g.x[bi], g.y[bi], g.z[bi])
        half == Lit(1, 2)
        Depth(ri, qvec0, q) ==
          IF FLt(q, 0)
          THEN BoxCorners(CornerRow(m, T, Gl, bi, pi, n, cross(ri, n), worldInertia,
                                    mult(n, q)),
                          bs, T, Gl, bi, pi, quat, worldInertia, idx + 1, numcontacts + 1)
          ELSE BoxCorners(m, bs, T, Gl, bi, pi, quat, worldInertia, idx + 1, numcontacts)
        Penetration(ri, qvec0) == Depth(ri, qvec0, dot(qvec0, n))
        Projected(ri, xj) ==
          Penetration(ri, Vec3(FSub(FSub(xj.x, g.x[bi]), FMul(ri.x, half)),
                               FSub(FSub(xj.y, g.y[bi]), FMul(ri.y, half)),
                               FSub(FSub(xj.z, g.z[bi]), FMul(ri.z, half))))
        Corner(ri) ==
          Projected(ri, vsub(xi, mult(n, dot(n,
            Vec3(FSub(FAdd(xi.x, FMul(ri.x, half)), g.x[pi]),
                 FSub(FAdd(xi.y, FMul(ri.y, half)), g.y[pi]),
                 FSub(FAdd(xi.z, FMul(ri.z, half)), g.z[pi]))))))
    IN Corner(qvmult(quat, Corners(bs[g.body[bi]]._shape.halfExtents)[idx]))

\* step, box-plane pair (i, j)
BoxPlane(m, bs, T, Gl, i, j) ==
  LET g == m.ws[Gl]
      bi == IF g.type[i] = BOX THEN i ELSE j
      pi == IF g.type[i] = BOX THEN j ELSE i
      localInertia == Vec3(g.inertiax[bi], g.inertiay[bi], g.inertiaz[bi])
      Rotated(quat, wI) ==
        BoxCorners(m, bs, T, Gl, bi, pi, quat,
                   [x |-> FAbs(wI.x), y |-> FAbs(wI.y), z |-> FAbs(wI.z)], 1, 0)
      Oriented(quat) == Rotated(quat, qvmult(quat, localInertia))
  IN Oriented(qnormalize(Quaternion(g.qx[bi], g.qy[bi], g.qz[bi], g.qw[bi])))

\* step, the loop over the broadphase pairs from pair k (counted from 1 here);
\* a throw leaves the loop with what was done so far
RECURSIVE NarrowPhase(_, _, _, _, _, _)
NarrowPhase(m, bs, T, Gl, pairs, k) ==
  IF m.threw \/ k > Len(pairs.p1) THEN m
  ELSE
    LET i == pairs.p1[k]
        j == pairs.p2[k]
        types == m.ws[Gl].type
    IN NarrowPhase(IF (types[i] = SPHERE /\ types[j] = PLANE)
                      \/ (types[i] = PLANE /\ types[j] = SPHERE)
                   THEN SpherePlane(m, bs, T, Gl, i, j)
                   ELSE IF types[i] = SPHERE /\ types[j] = SPHERE
                   THEN SphereSphere(m, bs, T, Gl, i, j)
                   ELSE IF (types[i] = BOX /\ types[j] = PLANE)
                           \/ (types[i] = PLANE /\ types[j] = BOX)
                   THEN BoxPlane(m, bs, T, Gl, i, j)
                   ELSE m,
                   bs, T, Gl, pairs, k + 1)

\* step: "Apply constraint velocities", world record g, solver sv
ApplyConstraintVelocities(g, sv) ==
  [g EXCEPT !.vx = [i \in DOMAIN @ |-> FAdd(@[i], sv.vxlambda[i])],
            !.vy = [i \in DOMAIN @ |-> FAdd(@[i], sv.vylambda[i])],
            !.vz = [i \in DOMAIN @ |-> FAdd(@[i], sv.vzlambda[i])],
            !.wx = [i \in DOMAIN @ |-> FAdd(@[i], sv.wxlambda[i])],
            !.wy = [i \in DOMAIN @ |-> FAdd(@[i], sv.wylambda[i])],
            !.wz = [i \in DOMAIN @ |-> FAdd(@[i], sv.wzlambda[i])]]

\* the leap frog that moves nothing
IntegrateOmitted(g, i, dt) == g

\* step: "Leap frog", the body of the loop's if for body i of the world record g
Integrate(g, i, dt) ==
    LET hdt == FMul(dt, Lit(1, 2))
        Stored(vx, vy, vz, wx, wy, wz, qn) ==
          [g EXCEPT !.vx[i] = vx, !.vy[i] = vy, !.vz[i] = vz,
                    !.wx[i] = wx, !.wy[i] = wy, !.wz[i] = wz,
                    !.x[i] = FAdd(@, FMul(vx, dt)), !.y[i] = FAdd(@, FMul(vy, dt)),
                    !.z[i] = FAdd(@, FMul(vz, dt)),
                    !.qx[i] = qn.x, !.qy[i] = qn.y, !.qz[i] = qn.z, !.qw[i] = qn.w]
        Turned(vx, vy, vz, wx, wy, wz, wq) ==
          Stored(vx, vy, vz, wx, wy, wz,
                 qnormalize(Quaternion(FAdd(g.qx[i], FMul(hdt, wq.x)),
                                       FAdd(g.qy[i], FMul(hdt, wq.y)),
                                       FAdd(g.qz[i], FMul(hdt, wq.z)),
                                       FAdd(g.qw[i], FMul(hdt, wq.w)))))
        Moved(vx, vy, vz, wx, wy, wz) ==
          Turned(vx, vy, vz, wx, wy, wz,
                 qmult(Quaternion(wx, wy, wz, 0),
                       Quaternion(g.qx[i], g.qy[i], g.qz[i], g.qw[i])))
    IN Moved(FAdd(g.vx[i], FMul(FMul(g.fx[i], g.invm[i]), dt)),
             FAdd(g.vy[i], FMul(FMul(g.fy[i], g.invm[i]), dt)),
             FAdd(g.vz[i], FMul(FMul(g.fz[i], g.invm[i]), dt)),
             FAdd(g.wx[i], FMul(FDiv(FMul(g.taux[i], SCALE), g.inertiax[i]), dt)),
             FAdd(g.wy[i], FMul(FDiv(FMul(g.tauy[i], SCALE), g.inertiay[i]), dt)),
             FAdd(g.wz[i], FMul(FDiv(FMul(g.tauz[i], SCALE), g.inertiaz[i]), dt)))

\* the leap frog without its test of the fixed flag
LeapFrogBodyUnguarded(g, i, dt) == Integrate(g, i, dt)

\* step: "Leap frog" for body i of the world record g
LeapFrogBody(g, i, dt) ==
  IF g.fixed[i] # 0 THEN g ELSE Integrate(g, i, dt)

RECURSIVE LeapFrog(_, _, _)
LeapFrog(g, i, dt) ==
  IF i >= numObjects(g) THEN g ELSE LeapFrog(LeapFrogBody(g, i, dt), i + 1, dt)

\* the reset left out: the accumulated forces and torques stay
ResetForcesOmitted(g) == g

\* step: "Reset all forces"
ResetForces(g) ==
  [g EXCEPT !.fx = [i \in DOMAIN @ |-> 0], !.fy = [i \in DOMAIN @ |-> 0],
            !.fz = [i \in DOMAIN @ |-> 0], !.taux = [i \in DOMAIN @ |-> 0],
            !.tauy = [i \in DOMAIN @ |-> 0], !.tauz = [i \in DOMAIN @ |-> 0]]

\* World.step(dt) called on world T of the heap ws, with the global name `world`
\* bound to world Gl: [ws, threw, log].  The base class Broadphase throws from
\* collisionPairs, and a world that never had a body has no array x to take
\* the length of: both throw before step has changed anything.
Step(ws, bs, T, Gl, dt) ==
  IF ws[T].paused THEN [ws |-> ws, threw |-> FALSE, log |-> <<>>]
  ELSE IF BroadphaseThrows(ws[T]) THEN [ws |-> ws, threw |-> TRUE, log |-> <<>>]
  ELSE IF numObjects(ws[Gl]) = 0 THEN [ws |-> ws, threw |-> TRUE, log |-> <<>>]
  ELSE
    LET Integrated(ws4, log) ==
          [ws |-> [ws4 EXCEPT ![Gl] = [ResetForces(LeapFrog(@, 0, dt))
                                         EXCEPT !.time = FAdd(@, dt),
                                                !.stepnumber = @ + 1]],
           threw |-> FALSE, log |-> log]
        Solved(m, sv) ==
          Integrated([[m.ws EXCEPT ![T].solver = sv]
                        EXCEPT ![Gl] = ApplyConstraintVelocities(@, sv)], m.log)
        Collided(m) ==
          IF m.threw THEN m
          ELSE IF m.ws[T].solver.n # 0 THEN Solved(m, SolverSolve(m.ws[T].solver))
          ELSE Integrated(m.ws, m.log)
        Prepared(pairs, ws1) ==
          Collided(NarrowPhase([ws |-> [[ws1 EXCEPT ![Gl] = AddGravity(@)]
                                          EXCEPT ![T].solver =
                                            SolverReset(@, numObjects(ws1[Gl]))],
                                threw |-> FALSE, log |-> <<>>], bs, T, Gl, pairs, 1))
    IN Prepared(collisionPairs(ws[T], bs), [ws EXCEPT ![T] = TransferHistory(@, 0, 0)])

\* ------------------------------------------------------------------------
\* Bounds and inputs
\* ------------------------------------------------------------------------

\* RigidBody objects constructed in a run
MaxBodies == 2
\* bodies a world holds
MaxObjects == 2
\* calls of step in a run (on a world that is not paused)
MaxSteps == 2
\* calls of setters in a run
MaxSets == 1

V(x, y, z) == [x |-> x, y |-> y, z |-> z]
Origin == V(0, 0, 0)

\* the shapes bodies are made of: the unit sphere, the plane y = 0 facing up,
\* the box of half extents (1,1,1)
Ball == Sphere(Lit(1, 1))
Ground == Plane(V(0, Lit(1, 1), 0))
Crate == Box(V(Lit(1, 1), Lit(1, 1), Lit(1, 1)))
Shapes == {Ball, Ground, Crate}
\* the shapes of the bodies constructed in a run of SpecBody
BodyShapes == {Ball, Ground}
\* the masses RigidBody is constructed with; a plane is static (mass 0)
Masses(shape) == IF shape.type = PLANE THEN {0} ELSE {0, Lit(1, 1)}

\* the arguments of the setters
Positions == {V(Lit(9, 5), 0, 0)}
Velocities == {V(Lit(-1, 1), 0, 0)}
Forces == {V(0, Lit(3, 1), 0)}
Torques == {V(0, 0, Lit(1, 1))}
NewMasses == {Lit(2, 1)}
Orientations == {Quaternion(0, 0, 0, Lit(2, 1))}
Spins == {V(0, Lit(1, 1), 0)}
NoGravity == Origin
Gravity == V(0, Lit(-10, 1), 0)
DtSet == {Lit(1, 2)}

\* b = new CANNON.RigidBody(mass, shape); b.setPosition(p); b.setVelocity(v)
Made(mass, shape, p, v) ==
  LET b0 == <<RigidBody(mass, shape)>>
      b1 == setPosition(<<>>, b0, 1, p)[2]
      b2 == setVelocity(<<>>, b1, 1, v)[2]
  IN b2[1]

Setup(bp, g, b1, b2) == [bp |-> bp, g |-> g, bodies |-> <<b1, b2>>]

\* what a run starts from: the broadphase and the gravity of the world, and two
\* bodies constructed and placed but not yet added.  Two unit spheres of mass 1
\* meeting head-on, the same spheres apart, a fixed sphere hit by a moving one,
\* a sphere sunk in the ground plane, a fixed sphere sunk in it, a box sunk in
\* it with four corners, with all eight corners, a fixed box sunk in it, the
\* head-on spheres in a world with the base class Broadphase, and a plane
\* constructed with mass 1 with a sphere moving along it, well above it.
Setups ==
  { Setup("NaiveBroadphase", NoGravity,
          Made(Lit(1, 1), Ball, Origin, V(Lit(1, 1), 0, 0)),
          Made(Lit(1, 1), Ball, V(Lit(9, 5), 0, 0), V(Lit(-1, 1), 0, 0))),
    Setup("NaiveBroadphase", NoGravity,
          Made(Lit(1, 1), Ball, Origin, V(Lit(1, 1), 0, 0)),
          Made(Lit(1, 1), Ball, V(Lit(3, 1), 0, 0), V(Lit(-1, 1), 0, 0))),
    Setup("NaiveBroadphase", Gravity,
          Made(0, Ball, Origin, Origin),
          Made(Lit(1, 1), Ball, V(Lit(9, 5), 0, 0), V(Lit(-1, 1), 0, 0))),
    Setup("NaiveBroadphase", Gravity,
          Made(0, Ground, Origin, Origin), Made(Lit(1, 1), Ball, Origin, Origin)),
    Setup("NaiveBroadphase", NoGravity,
          Made(0, Ground, Origin, Origin), Made(0, Ball, Origin, Origin)),
    Setup("NaiveBroadphase", Gravity,
          Made(0, Ground, Origin, Origin), Made(Lit(1, 1), Crate, Origin, Origin)),
    Setup("NaiveBroadphase", NoGravity,
          Made(0, Ground, Origin, Origin),
          Made(Lit(1, 1), Crate, V(0, Lit(-3, 2), 0), Origin)),
    Setup("NaiveBroadphase", NoGravity,
          Made(0, Ground, Origin, Origin), Made(0, Crate, Origin, Origin)),
    Setup("Broadphase", Gravity,
          Made(Lit(1, 1), Ball, Origin, V(Lit(1, 1), 0, 0)),
          Made(Lit(1, 1), Ball, V(Lit(9, 5), 0, 0), V(Lit(-1, 1), 0, 0))),
    Setup("NaiveBroadphase", NoGravity,
          Made(Lit(1, 1), Ground, Origin, Origin),
          Made(Lit(1, 1), Ball, V(0, Lit(3, 1), 0), V(Lit(1, 1), 0, 0))) }

BodyIds == 1..Len(bodies)
WorldIds == DOMAIN worlds

Called(op, self, arg, threw, value, log) ==
  [op |-> op, self |-> self, arg |-> arg, threw |-> threw, value |-> value, log |-> log]

None == <<>>

\* ------------------------------------------------------------------------
\* Actions: the calls a program makes
\* ------------------------------------------------------------------------

\* body = new CANNON.RigidBody(mass, shape)
NewRigidBody(shape, mass) ==
  /\ Len(bodies) < MaxBodies
  /\ bodies' = Append(bodies, RigidBody(mass, shape))
  /\ call' = Called("RigidBody", Len(bodies) + 1, None, FALSE, None, <<>>)
  /\ UNCHANGED <<worlds, world, steps, sets>>

\* the heap after worlds[w].add(bodies[b]): <<worlds, bodies>>
Added(ws, bs, w, b) ==
  <<[ws EXCEPT ![w] = add(@, b, bs[b])],
    [bs EXCEPT ![b]._id = numObjects(ws[w]), ![b]._world = w]>>

\* worlds[w].add(bodies[b])
Add(w, b) ==
  /\ numObjects(worlds[w]) < MaxObjects
  /\ worlds' = Added(worlds, bodies, w, b)[1]
  /\ bodies' = Added(worlds, bodies, w, b)[2]
  /\ call' = Called("add", w, b, FALSE, None, <<>>)
  /\ UNCHANGED <<world, steps, sets>>

\* worlds[w].step(dt)
DoStep(w, dt) ==
  /\ steps[w] < MaxSteps
  /\ LET Returned(r) == /\ worlds' = r.ws
                        /\ call' = Called("step", w, dt, r.threw, None, r.log)
     IN Returned(Step(worlds, bodies, w, world, dt))
  /\ steps' = [steps EXCEPT ![w] = IF worlds[w].paused THEN @ ELSE @ + 1]
  /\ UNCHANGED <<bodies, world, sets>>

\* worlds[w].togglepause()
TogglePause(w) ==
  /\ worlds' = [worlds EXCEPT ![w].paused = ~@]
  /\ call' = Called("togglepause", w, None, FALSE, None, <<>>)
  /\ UNCHANGED <<bodies, world, steps, sets>>

\* a setter of bodies[b] called with v: r is the heap <<worlds, bodies>> it leaves
Setter(op, r, b, v) ==
  /\ sets < MaxSets
  /\ sets' = sets + 1
  /\ worlds' = r[1]
  /\ bodies' = r[2]
  /\ call' = Called(op, b, v, FALSE, None, <<>>)
  /\ UNCHANGED <<world, steps>>

\* a getter of bodies[b]: r is what it gives, [threw, value]
Getter(op, r, b) ==
  /\ call' = Called(op, b, None, r.threw, IF r.threw THEN None ELSE r.value, <<>>)
  /\ UNCHANGED <<worlds, bodies, world, steps, sets>>

SetMass(b, m) == Setter("mass", setMass(worlds, bodies, b, m), b, m)
SetPosition(b, v) == Setter("setPosition", setPosition(worlds, bodies, b, v), b, v)
SetOrientation(b, q) == Setter("setOrientation", setOrientation(worlds, bodies, b, q), b, q)
SetVelocity(b, v) == Setter("setVelocity", setVelocity(worlds, bodies, b, v), b, v)
SetAngularVelocity(b, v) ==
  Setter("setAngularVelocity", setAngularVelocity(worlds, bodies, b, v), b, v)
SetForce(b, v) == Setter("setForce", setForce(worlds, bodies, b, v), b, v)
SetTorque(b, v) == Setter("setTorque", setTorque(worlds, bodies, b, v), b, v)
GetPosition(b) == Getter("getPosition", getPosition(worlds, bodies, b), b)
GetOrientation(b) == Getter("getOrientation", getOrientation(worlds, bodies, b), b)
GetVelocity(b) == Getter("getVelocity", getVelocity(worlds, bodies, b), b)
GetAngularvelocity(b) == Getter("getAngularvelocity", getAngularvelocity(worlds, bodies, b), b)
GetForce(b) == Getter("getForce", getForce(worlds, bodies, b), b)
GetTorque(b) == Getter("getTorque", getTorque(worlds, bodies, b), b)

\* ------------------------------------------------------------------------
\* Spec: one World, bound to the global name `world`, with its broadphase and
\* gravity set, and two bodies constructed and placed; the bodies are added,
\* reconfigured and the world is stepped
\* ------------------------------------------------------------------------

Init ==
  /\ \E s \in Setups : /\ worlds = [w \in {1} |-> World(s.bp, s.g)]
                        /\ bodies = s.bodies
  /\ world = 1
  /\ call = Called("World", 1, None, FALSE, None, <<>>)
  /\ steps = [w \in {1} |-> 0]
  /\ sets = 0

Next ==
  \/ \E w \in WorldIds, b \in BodyIds : Add(w, b)
  \/ \E w \in WorldIds, dt \in DtSet : DoStep(w, dt)
  \/ \E w \in WorldIds : TogglePause(w)
  \/ \E b \in BodyIds, m \in NewMasses : SetMass(b, m)
  \/ \E b \in BodyIds, v \in Positions : SetPosition(b, v)
  \/ \E b \in BodyIds, v \in Velocities : SetVelocity(b, v)
  \/ \E b \in BodyIds, v \in Forces : SetForce(b, v)
  \/ \E b \in BodyIds, v \in Torques : SetTorque(b, v)

Spec == Init /\ [][Next]_vars

\* ------------------------------------------------------------------------
\* SpecTwoWorlds: two World objects constructed one after the other in the same
\* way (same broadphase kind and gravity, bodies constructed, placed and added
\* alike), one of them bound to the global name `world`; either is stepped
\* ------------------------------------------------------------------------

\* the heap of the setup s built twice: bodies 1 and 2 are added to world 1,
\* bodies 3 and 4 (constructed and placed like 1 and 2) to world 2
BuiltTwice(s) ==
  LET ws0 == <<World(s.bp, s.g), World(s.bp, s.g)>>
      bs0 == s.bodies \o s.bodies
      h1 == Added(ws0, bs0, 1, 1)
      h2 == Added(h1[1], h1[2], 1, 2)
      h3 == Added(h2[1], h2[2], 2, 3)
  IN Added(h3[1], h3[2], 2, 4)

InitTwoWorlds ==
  /\ \E s \in Setups : /\ worlds = BuiltTwice(s)[1]
                        /\ bodies = BuiltTwice(s)[2]
  /\ world \in {1, 2}
  /\ call = Called("World", 2, None, FALSE, None, <<>>)
  /\ steps = [w \in {1, 2} |-> 0]
  /\ sets = 0

NextTwoWorlds ==
  \/ \E w \in WorldIds, dt \in DtSet : DoStep(w, dt)
  \/ \E w \in WorldIds : TogglePause(w)

SpecTwoWorlds == InitTwoWorlds /\ [][NextTwoWorlds]_vars

\* ------------------------------------------------------------------------
\* SpecBody: one World; bodies are constructed, added to it, and their setters
\* and getters are called, attached or not
\* ------------------------------------------------------------------------

InitBody ==
  /\ worlds = <<World("NaiveBroadphase", Gravity)>>
  /\ bodies = <<>>
  /\ world = 1
  /\ call = Called("World", 1, None, FALSE, None, <<>>)
  /\ steps = [w \in {1} |-> 0]
  /\ sets = 0

NextBody ==
  \/ \E shape \in BodyShapes : \E mass \in Masses(shape) : NewRigidBody(shape, mass)
  \/ \E w \in WorldIds, b \in BodyIds : Add(w, b)
  \/ \E b \in BodyIds, m \in NewMasses : SetMass(b, m)
  \/ \E b \in BodyIds, v \in Positions : SetPosition(b, v)
  \/ \E b \in BodyIds, q \in Orientations : SetOrientation(b, q)
  \/ \E b \in BodyIds, v \in Velocities : SetVelocity(b, v)
  \/ \E b \in BodyIds, v \in Spins : SetAngularVelocity(b, v)
  \/ \E b \in BodyIds, v \in Forces : SetForce(b, v)
  \/ \E b \in BodyIds, v \in Torques : SetTorque(b, v)
  \/ \E b \in BodyIds : GetPosition(b)
  \/ \E b \in BodyIds : GetOrientation(b)
  \/ \E b \in BodyIds : GetVelocity(b)
  \/ \E b \in BodyIds : GetAngularvelocity(b)
  \/ \E b \in BodyIds : GetForce(b)
  \/ \E b \in BodyIds : GetTorque(b)

SpecBody == InitBody /\ [][NextBody]_vars

\* ------------------------------------------------------------------------
\* SpecPairs: one World with a NaiveBroadphase holding a scene of bodies of all
\* three shapes, some in each other's reach and some not; the broadphase is
\* asked for the collision pairs, and bodies are moved
\* ------------------------------------------------------------------------

\* bodies a scene holds
MaxSceneBodies == 3

\* a plane through the origin that is tilted about z
Slope == Plane(V(Lit(3, 5), Lit(4, 5), 0))

\* the bodies scenes are made of: unit spheres at the origin, 1.5 along x, 3
\* up and 1.5 along x and y, the ground plane and the tilted plane, and the
\* box with its centre 1.5 above the ground
SceneBodies ==
  { Made(Lit(1, 1), Ball, Origin, Origin),
    Made(Lit(1, 1), Ball, V(Lit(3, 2), 0, 0), Origin),
    Made(Lit(1, 1), Ball, V(0, Lit(3, 1), 0), Origin),
    Made(Lit(1, 1), Ball, V(Lit(3, 2), Lit(3, 2), 0), Origin),
    Made(0, Ground, Origin, Origin),
    Made(0, Slope, Origin, Origin),
    Made(Lit(1, 1), Crate, V(0, Lit(3, 2), 0), Origin) }

\* the heap after world 1 has been given the bodies b, b+1, ... of bs with add
RECURSIVE AddedAll(_, _, _)
AddedAll(ws, bs, b) ==
  IF b > Len(bs) THEN <<ws, bs>>
  ELSE AddedAll(Added(ws, bs, 1, b)[1], Added(ws, bs, 1, b)[2], b + 1)

\* worlds[w]._broadphase.collisionPairs()
CollisionPairs(w) ==
  /\ call' = IF BroadphaseThrows(worlds[w])
              THEN Called("collisionPairs", w, None, TRUE, None, <<>>)
              ELSE Called("collisionPairs", w, None, FALSE,
                          collisionPairs(worlds[w], bodies), <<>>)
  /\ UNCHANGED <<worlds, bodies, world, steps, sets>>

InitPairs ==
  /\ \E scene \in [1..MaxSceneBodies -> SceneBodies] :
       /\ worlds = AddedAll(<<World("NaiveBroadphase", NoGravity)>>, scene, 1)[1]
       /\ bodies = AddedAll(<<World("NaiveBroadphase", NoGravity)>>, scene, 1)[2]
  /\ world = 1
  /\ call = Called("World", 1, None, FALSE, None, <<>>)
  /\ steps = [w \in {1} |-> 0]
  /\ sets = 0

NextPairs ==
  \/ \E w \in WorldIds : CollisionPairs(w)
  \/ \E b \in BodyIds, v \in Positions : SetPosition(b, v)

SpecPairs == InitPairs /\ [][NextPairs]_vars

\* ------------------------------------------------------------------------
\* SpecImpulse: one World holding the two bodies of a setup; the first-contact
\* impulse handler is called on the pair with a relative velocity and a normal,
\* and velocities are set
\* ------------------------------------------------------------------------

\* the relative velocities and the contact normals _addImpulse is called with
RelativeVelocities == {V(Lit(-2, 1), 0, 0), V(Lit(1, 1), Lit(-1, 1), 0)}
Normals == {V(Lit(1, 1), 0, 0), V(0, Lit(-1, 1), 0)}

\* worlds[w]._addImpulse(i, j, ri, rj, ui, ni, 0.5, 0.3), with the contact
\* points on the normal
AddImpulse(w, i, j, ui, ni) ==
  /\ steps[w] < MaxSteps
  /\ LET Returned(r) ==
           /\ worlds' = r.ws
           /\ call' = Called("_addImpulse", w,
                             [i |-> i, j |-> j, ui |-> ui, ni |-> ni, e |-> Restitution],
                             r.threw, None, <<>>)
     IN Returned(addImpulse(worlds, w, i, j, ni, negate(ni), ui, ni,
                            Restitution, Friction))
  /\ steps' = [steps EXCEPT ![w] = @ + 1]
  /\ UNCHANGED <<bodies, world, sets>>

InitImpulse ==
  /\ \E s \in Setups : /\ worlds = AddedAll(<<World(s.bp, s.g)>>, s.bodies, 1)[1]
                        /\ bodies = AddedAll(<<World(s.bp, s.g)>>, s.bodies, 1)[2]
  /\ world = 1
  /\ call = Called("World", 1, None, FALSE, None, <<>>)
  /\ steps = [w \in {1} |-> 0]
  /\ sets = 0

NextImpulse ==
  \/ \E w \in WorldIds :
       \E i, j \in 0..(numObjects(worlds[w]) - 1) :
         \E ui \in RelativeVelocities, ni \in Normals :
           i # j /\ AddImpulse(w, i, j, ui, ni)
  \/ \E b \in BodyIds, v \in Velocities : SetVelocity(b, v)

SpecImpulse == InitImpulse /\ [][NextImpulse]_vars

\* ------------------------------------------------------------------------
\* SpecSolver: the solver of a World that holds two bodies, after
\* world.solver.reset(2); constraint rows between the two bodies are added to
\* it with addConstraint and it is asked to solve
\* ------------------------------------------------------------------------

\* rows a solver holds
MaxRows == 2

\* a row between the bodies 0 and 1 along the x axis, as step builds it for two
\* spheres of mass 1: normal component nx, penetration qx, velocities vix, vjx
XRow(nx, qx, vix, vjx, lower, upper) ==
  [G |-> <<FNeg(nx), 0, 0, 0, 0, 0, nx, 0, 0, 0, 0, 0>>,
   MinvTrace |-> [k \in 1..12 |-> Lit(1, 1)],
   q |-> <<FNeg(qx), 0, 0, 0, 0, 0, qx, 0, 0, 0, 0, 0>>,
   qdot |-> <<vix, 0, 0, 0, 0, 0, vjx, 0, 0, 0, 0, 0>>,
   Fext |-> [k \in 1..12 |-> 0],
   lower |-> lower, upper |-> upper, i |-> 0, j |-> 1]

\* the rows added: a contact being closed and a contact coming apart, both
\* with the bounds of a contact (0, 'inf'), a row bounded by -1 and 1, and a
\* row with no bound
Rows ==
  { XRow(Lit(1, 1), Lit(-1, 5), Lit(1, 1), Lit(-1, 1), 0, StrInf),
    XRow(Lit(1, 1), Lit(1, 5), Lit(-1, 1), Lit(1, 1), 0, StrInf),
    XRow(Lit(1, 1), Lit(-1, 5), Lit(1, 1), Lit(-1, 1), Lit(-1, 1), Lit(1, 1)),
    XRow(Lit(1, 1), Lit(1, 5), Lit(-1, 1), Lit(1, 1), StrInf, StrInf) }

\* worlds[w].solver.addConstraint(G, MinvTrace, q, qdot, Fext, lower, upper, i, j)
AddConstraint(w, row) ==
  /\ worlds[w].solver.n < MaxRows
  /\ worlds' = [worlds EXCEPT ![w].solver =
                  addConstraint(@, row.G, row.MinvTrace, row.q, row.qdot, row.Fext,
                                row.lower, row.upper, row.i, row.j)]
  /\ call' = Called("addConstraint", w, row, FALSE, worlds[w].solver.n, <<>>)
  /\ UNCHANGED <<bodies, world, steps, sets>>

\* worlds[w].solver.solve(); the call's log is the row updates it has made
Solve(w) ==
  /\ steps[w] < MaxSteps
  /\ worlds' = [worlds EXCEPT ![w].solver = SolverSolve(@)]
  /\ call' = Called("solve", w, None, FALSE, None,
                    SolveTrace(worlds[w].solver, SolveStart(worlds[w].solver), 0, 0, <<>>))
  /\ steps' = [steps EXCEPT ![w] = @ + 1]
  /\ UNCHANGED <<bodies, world, sets>>

\* worlds[w].solver.reset(worlds[w].numObjects())
Reset(w) ==
  /\ worlds' = [worlds EXCEPT ![w].solver = SolverReset(@, numObjects(worlds[w]))]
  /\ call' = Called("reset", w, numObjects(worlds[w]), FALSE, None, <<>>)
  /\ UNCHANGED <<bodies, world, steps, sets>>

InitSolver ==
  /\ \E s \in {t \in Setups : t.bp = "NaiveBroadphase" /\ t.g = NoGravity} :
       LET h == AddedAll(<<World(s.bp, s.g)>>, s.bodies, 1)
       IN /\ worlds = [h[1] EXCEPT ![1].solver = SolverReset(@, numObjects(h[1][1]))]
          /\ bodies = h[2]
  /\ world = 1
  /\ call = Called("reset", 1, 2, FALSE, None, <<>>)
  /\ steps = [w \in {1} |-> 0]
  /\ sets = 0

NextSolver ==
  \/ \E w \in WorldIds, row \in Rows : AddConstraint(w, row)
  \/ \E w \in WorldIds : Solve(w)
  \/ \E w \in WorldIds : Reset(w)

SpecSolver == InitSolver /\ [][NextSolver]_vars

\* ------------------------------------------------------------------------
\* Steps of a world of three bodies
\* ------------------------------------------------------------------------

\* a box 0.625 above the origin
EdgeCrate == Made(Lit(1, 1), Crate, V(0, Lit(5, 8), 0), Origin)

\* the bodies these scenes are made of: the ground plane and the tilted plane,
\* the box sunk in the ground with four corners and with all eight, the box
\* 0.625 above the origin, and unit spheres sunk in the planes, at the origin
\* and 3 along x
RowSceneBodies ==
  { Made(0, Ground, Origin, Origin),
    Made(0, Slope, Origin, Origin),
    Made(Lit(1, 1), Crate, Origin, Origin),
    Made(Lit(1, 1), Crate, V(0, Lit(-3, 2), 0), Origin),
    EdgeCrate,
    Made(Lit(1, 1), Ball, Origin, Origin),
    Made(Lit(1, 1), Ball, V(Lit(3, 1), 0, 0), Origin) }

\* the scenes: three bodies, one of them a plane; two of them are boxes only
\* if both are the box 0.625 above the origin
RowScenes ==
  { scene \in {<<a, b, c>> : a \in RowSceneBodies, b \in RowSceneBodies, c \in RowSceneBodies} :
      /\ Cardinality({k \in DOMAIN scene : scene[k]._shape.type = PLANE}) = 1
      /\ \/ Cardinality({k \in DOMAIN scene : scene[k]._shape.type = BOX}) <= 1
         \/ \A k \in DOMAIN scene : scene[k]._shape.type = BOX => scene[k] = EdgeCrate }

InitRows ==
  /\ \E scene \in RowScenes :
       /\ worlds = AddedAll(<<World("NaiveBroadphase", NoGravity)>>, scene, 1)[1]
       /\ bodies = AddedAll(<<World("NaiveBroadphase", NoGravity)>>, scene, 1)[2]
  /\ world = 1
  /\ call = Called("World", 1, None, FALSE, None, <<>>)
  /\ steps = [w \in {1} |-> 0]
  /\ sets = 0

NextRows ==
  \/ \E w \in WorldIds, dt \in DtSet : DoStep(w, dt)
  \/ \E w \in WorldIds : TogglePause(w)

SpecRows == InitRows /\ [][NextRows]_vars

\* ------------------------------------------------------------------------
\* A stepped world that is given another body
\* ------------------------------------------------------------------------

\* the bodies these scenes are made of: the ground plane and unit spheres sunk
\* in it, at the origin, 1.5 along x and 3 along x
AddSceneBodies ==
  { Made(0, Ground, Origin, Origin),
    Made(Lit(1, 1), Ball, Origin, Origin),
    Made(Lit(1, 1), Ball, V(Lit(3, 2), 0, 0), Origin),
    Made(Lit(1, 1), Ball, V(Lit(3, 1), 0, 0), Origin) }

\* worlds[w].add(bodies[b]) for a body that is in no world yet
AddAnother(w, b) ==
  /\ numObjects(worlds[w]) < MaxSceneBodies
  /\ bodies[b]._world = 0
  /\ worlds' = Added(worlds, bodies, w, b)[1]
  /\ bodies' = Added(worlds, bodies, w, b)[2]
  /\ call' = Called("add", w, b, FALSE, None, <<>>)
  /\ UNCHANGED <<world, steps, sets>>

\* a world that holds the first two bodies of a scene; the others are
\* constructed and placed, and not added yet
InitAdd ==
  /\ \E scene \in [1..MaxSceneBodies -> AddSceneBodies] :
       /\ worlds = AddedAll(<<World("NaiveBroadphase", NoGravity)>>, SubSeq(scene, 1, 2), 1)[1]
       /\ bodies = AddedAll(<<World("NaiveBroadphase", NoGravity)>>, SubSeq(scene, 1, 2), 1)[2]
                      \o SubSeq(scene, 3, MaxSceneBodies)
  /\ world = 1
  /\ call = Called("World", 1, None, FALSE, None, <<>>)
  /\ steps = [w \in {1} |-> 0]
  /\ sets = 0

NextAdd ==
  \/ \E w \in WorldIds, dt \in DtSet : DoStep(w, dt)
  \/ \E w \in WorldIds, b \in BodyIds : AddAnother(w, b)

SpecAdd == InitAdd /\ [][NextAdd]_vars

\* ------------------------------------------------------------------------
\* Properties
\* ------------------------------------------------------------------------

\* bodies i and j of the world record w are two spheres, or a sphere and a plane
SpherePair(w, i, j) ==
  \/ w.type[i] = SPHERE /\ w.type[j] = SPHERE
  \/ w.type[i] = SPHERE /\ w.type[j] = PLANE
  \/ w.type[i] = PLANE /\ w.type[j] = SPHERE

\* the rows the solver sv holds for the pair of bodies i and j
RowsOf(sv, i, j) ==
  Cardinality({l \in 0..(sv.n - 1) : {sv.i[l], sv.j[l]} = {i, j}})

\* the calls of _addImpulse a step's log holds for the pair of bodies i and j
ImpulsesOf(log, i, j) ==
  Cardinality({k \in 1..Len(log) : log[k].kind = "impulse" /\ {log[k].i, log[k].j} = {i, j}})

\* the pair of bodies i and j was found penetrating in the step that left log
InContact(log, i, j) == \E k \in 1..Len(log) : {log[k].i, log[k].j} = {i, j}

\* C1: a step resolves a penetrating sphere-sphere or sphere-plane pair by the
\* first-contact impulse and no solver row when the pair's contact bit of the
\* step before is 0, and by exactly one solver row and no impulse when it is
\* 1; of two steps called one right after the other with the pair in contact
\* in both, the second uses no impulse for it.
C1_ImpulseOnlyOnFirstContact ==
  [][call'.op = "step" =>
       \A k \in 1..Len(call'.log) :
         LET e == call'.log[k]
             before == cmatrix(worlds[call'.self], e.i, e.j, 0)
             rows == RowsOf(worlds'[call'.self].solver, e.i, e.j)
             impulses == ImpulsesOf(call'.log, e.i, e.j)
         IN SpherePair(worlds[world], e.i, e.j) =>
              /\ before = 0 => impulses = 1 /\ rows = 0
              /\ before = 1 => impulses = 0 /\ rows = 1
              /\ (call.op = "step" /\ call.self = call'.self
                  /\ InContact(call.log, e.i, e.j)) => impulses = 0]_vars

\* C1 witness: a step has resolved a sphere pair, in contact in the step before
\* too, by a solver row
C1_Witness ==
  /\ call.op = "step"
  /\ ~call.threw
  /\ \E k \in 1..Len(call.log) :
       /\ SpherePair(worlds[world], call.log[k].i, call.log[k].j)
       /\ call.log[k].kind = "row"
       /\ call.log[k].prev = 1
       /\ RowsOf(worlds[call.self].solver, call.log[k].i, call.log[k].j) = 1

\* the accumulated force and torque of every body of the world record w are 0
ForcesZero(w) ==
  \A i \in 0..(numObjects(w) - 1) :
    /\ w.fx[i] = 0 /\ w.fy[i] = 0 /\ w.fz[i] = 0
    /\ w.taux[i] = 0 /\ w.tauy[i] = 0 /\ w.tauz[i] = 0

\* C2 as stated: after every call of step that returns, on a paused world too,
\* the force and the torque of every body are 0.
C2_ForcesZeroAfterAnyStep ==
  (call.op = "step" /\ ~call.threw) => ForcesZero(worlds[call.self])

\* C2 amended: after every call of step that returns on a world that is not
\* paused, the force and the torque of every body are 0; a paused world's step
\* returns at once and leaves them as they were.
C2_ForcesZeroAfterUnpausedStep ==
  (call.op = "step" /\ ~call.threw /\ ~worlds[call.self].paused)
    => ForcesZero(worlds[call.self])

\* C2 witness: a step has returned on a world that is not paused and whose
\* gravity acts on a body with mass, so the step had a force to reset
C2_Witness ==
  /\ call.op = "step" /\ ~call.threw /\ ~worlds[call.self].paused
  /\ worlds[call.self].stepnumber > 0
  /\ worlds[call.self].gravity.y # 0
  /\ \E i \in 0..(numObjects(worlds[call.self]) - 1) : worlds[call.self].mass[i] > 0
  /\ ForcesZero(worlds[call.self])

\* body i of the world record v is where and how it is oriented in w
SamePlace(w, v, i) ==
  /\ v.x[i] = w.x[i] /\ v.y[i] = w.y[i] /\ v.z[i] = w.z[i]
  /\ v.qx[i] = w.qx[i] /\ v.qy[i] = w.qy[i] /\ v.qz[i] = w.qz[i] /\ v.qw[i] = w.qw[i]

\* C3: a call of step leaves the position and the orientation of every body
\* whose fixed flag is 1 as they were, whatever forces, torques, gravity and
\* contacts act on it.
C3_FixedBodyStays ==
  [][call'.op = "step" =>
       \A i \in 0..(numObjects(worlds[world]) - 1) :
         worlds[world].fixed[i] = 1 => SamePlace(worlds[world], worlds'[world], i)]_vars

\* C3 witness: a step has resolved a contact of a body whose fixed flag is 1,
\* and has changed the time
C3_Witness ==
  /\ call.op = "step" /\ ~call.threw
  /\ worlds[world].stepnumber > 0
  /\ \E k \in 1..Len(call.log) :
       worlds[world].fixed[call.log[k].i] = 1 \/ worlds[world].fixed[call.log[k].j] = 1

\* the total linear momentum of bodies i and j of the world record w
Momentum(w, i, j) ==
  Vec3(FAdd(FMul(w.mass[i], w.vx[i]), FMul(w.mass[j], w.vx[j])),
       FAdd(FMul(w.mass[i], w.vy[i]), FMul(w.mass[j], w.vy[j])),
       FAdd(FMul(w.mass[i], w.vz[i]), FMul(w.mass[j], w.vz[j])))

\* the squared speed of body i of the world record w
Speed2(w, i) == dot(Vec3(w.vx[i], w.vy[i], w.vz[i]), Vec3(w.vx[i], w.vy[i], w.vz[i]))

\* the rounding allowed when two computed quantities are compared
Tolerance == Lit(1, 100)
Near(a, b) == FLe(FAbs(FSub(a, b)), Tolerance)

\* C4: a step in which two movable spheres make first contact, with no gravity
\* and no force acting, keeps the pair's total linear momentum and does not
\* raise the speed of either sphere.
C4_ImpulsePreservesMomentum ==
  [][(call'.op = "step" /\ ~call'.threw /\ worlds[world].gravity = Origin
      /\ ForcesZero(worlds[world])) =>
       \A k \in 1..Len(call'.log) :
         LET i == call'.log[k].i
             j == call'.log[k].j
             w == worlds[world]
             v == worlds'[world]
         IN (/\ call'.log[k].kind = "impulse"
             /\ w.type[i] = SPHERE /\ w.type[j] = SPHERE
             /\ w.fixed[i] = 0 /\ w.fixed[j] = 0
             /\ w.mass[i] > 0 /\ w.mass[j] > 0)
            => /\ Near(Momentum(v, i, j).x, Momentum(w, i, j).x)
               /\ Near(Momentum(v, i, j).y, Momentum(w, i, j).y)
               /\ Near(Momentum(v, i, j).z, Momentum(w, i, j).z)
               /\ FLe(Speed2(v, i), FAdd(Speed2(w, i), Tolerance))
               /\ FLe(Speed2(v, j), FAdd(Speed2(w, j), Tolerance))]_vars

\* body i of the world record v has the position, velocity, orientation and
\* angular velocity it has in w
SameBodyState(w, v, i) ==
  /\ SamePlace(w, v, i)
  /\ v.vx[i] = w.vx[i] /\ v.vy[i] = w.vy[i] /\ v.vz[i] = w.vz[i]
  /\ v.wx[i] = w.wx[i] /\ v.wy[i] = w.wy[i] /\ v.wz[i] = w.wz[i]

\* C5: two worlds built alike that have been stepped equally often, with the
\* same dt, hold the same state for every body, in whatever order their steps
\* were made.
C5_TwoWorldsAgree ==
  (steps[1] = steps[2] /\ ~worlds[1].paused /\ ~worlds[2].paused)
    => \A i \in 0..(numObjects(worlds[1]) - 1) : SameBodyState(worlds[1], worlds[2], i)

\* C6: for every body of a world, invm is 0 exactly when the fixed flag is 1,
\* and the fixed flag is 1 exactly when the mass is not positive.
C6_MassFlagsAgree ==
  \A w \in WorldIds : \A i \in 0..(numObjects(worlds[w]) - 1) :
    /\ worlds[w].invm[i] = 0 <=> worlds[w].fixed[i] = 1
    /\ worlds[w].fixed[i] = 1 <=> FLe(worlds[w].mass[i], 0)

\* C7: the bodies of a world occupy the indices 0..N-1, the body held at index k
\* has _id = k, and a body no world holds has _id = -1.
C7_IdIsIndex ==
  /\ \A w \in WorldIds :
       /\ DOMAIN worlds[w].body = 0..(numObjects(worlds[w]) - 1)
       /\ \A k \in 0..(numObjects(worlds[w]) - 1) : bodies[worlds[w].body[k]]._id = k
  /\ \A b \in BodyIds :
       (\A w \in WorldIds : \A k \in 0..(numObjects(worlds[w]) - 1) : worlds[w].body[k] # b)
         => bodies[b]._id = -1

\* the getter that goes with each setter of a vector
GetterOf ==
  [setPosition |-> "getPosition", setVelocity |-> "getVelocity",
   setAngularVelocity |-> "getAngularvelocity", setForce |-> "getForce",
   setTorque |-> "getTorque"]

\* C8: for a body attached to a world, the getter called right after the
\* matching setter returns the vector the setter was called with.
C8_AttachedRoundTrip ==
  [][(/\ call.op \in DOMAIN GetterOf
      /\ call'.op = GetterOf[call.op]
      /\ call'.self = call.self
      /\ Attached(bodies, call.self))
     => (~call'.threw /\ call'.value = call.arg)]_vars

GetterOps ==
  {"getPosition", "getOrientation", "getVelocity", "getAngularvelocity", "getForce",
   "getTorque"}

\* the in-record value each getter is about
InRecord(body) ==
  [getPosition |-> body._position, getOrientation |-> body._quaternion,
   getVelocity |-> body._velocity, getAngularvelocity |-> body._rotvelo,
   getForce |-> body._force, getTorque |-> body._tau]

\* C9: a getter called on a detached body returns the value held in the body
\* record and raises no error.
C9_DetachedGetters ==
  (call.op \in GetterOps /\ ~Attached(bodies, call.self))
    => (~call.threw /\ call.value = InRecord(bodies[call.self])[call.op])

\* C10: a call of step on a world that holds bodies added with add, has a
\* NaiveBroadphase and a gravity set, returns normally.
C10_StepReturns ==
  (/\ call.op = "step"
   /\ worlds[call.self]._broadphase = "NaiveBroadphase"
   /\ numObjects(worlds[call.self]) > 0)
    => ~call.threw

\* C11 as stated: a call of step on a world whose broadphase is the base class
\* Broadphase, paused or not, raises an error and leaves every world as it was.
C11_BaseBroadphaseStepThrowsAlways ==
  [][(call'.op = "step" /\ worlds[call'.self]._broadphase = "Broadphase")
       => (call'.threw /\ worlds' = worlds)]_vars

\* C11 amended: a call of step on a world that is not paused and whose
\* broadphase is the base class Broadphase raises an error and leaves every
\* world as it was: contact matrix, forces, velocities, positions, time and
\* stepnumber; on a paused world step returns at once, without an error.
C11_BaseBroadphaseStepThrows ==
  [][(/\ call'.op = "step"
      /\ worlds[call'.self]._broadphase = "Broadphase"
      /\ ~worlds[call'.self].paused)
       => (call'.threw /\ worlds' = worlds)]_vars

\* C11 witness: a step has thrown on a world with the base class Broadphase
\* that holds two bodies with velocities and a force to integrate
C11_Witness ==
  /\ call.op = "step" /\ call.threw
  /\ worlds[call.self]._broadphase = "Broadphase"
  /\ ~worlds[call.self].paused
  /\ numObjects(worlds[call.self]) = 2
  /\ worlds[call.self].time = 0 /\ worlds[call.self].stepnumber = 0
  /\ \E i \in 0..1 : worlds[call.self].fy[i] # 0

\* the broadphase of world w returns no pairs
NoPairs(w) ==
  /\ ~BroadphaseThrows(worlds[w])
  /\ Len(collisionPairs(worlds[w], bodies).p1) = 0

\* body i of the world record v has the linear and the angular velocity it has in w
SameVelocities(w, v, i) ==
  /\ v.vx[i] = w.vx[i] /\ v.vy[i] = w.vy[i] /\ v.vz[i] = w.vz[i]
  /\ v.wx[i] = w.wx[i] /\ v.wy[i] = w.wy[i] /\ v.wz[i] = w.wz[i]

\* body i of the world record v is where it is in w, moved by its velocity times dt
Advanced(w, v, i, dt) ==
  /\ v.x[i] = FAdd(w.x[i], FMul(w.vx[i], dt))
  /\ v.y[i] = FAdd(w.y[i], FMul(w.vy[i], dt))
  /\ v.z[i] = FAdd(w.z[i], FMul(w.vz[i], dt))

\* a step of world w keeps every velocity and moves every movable body by v*dt
FreeFlight(w, dt) ==
  \A i \in 0..(numObjects(worlds[w]) - 1) :
    /\ SameVelocities(worlds[w], worlds'[w], i)
    /\ worlds[w].fixed[i] = 0 => Advanced(worlds[w], worlds'[w], i, dt)

\* every movable body of the world record w has non-zero inertia
MovableHaveInertia(w) ==
  \A i \in 0..(numObjects(w) - 1) :
    w.fixed[i] = 0 => (w.inertiax[i] # 0 /\ w.inertiay[i] # 0 /\ w.inertiaz[i] # 0)

\* C12 as stated: in a world with zero gravity whose broadphase returns no
\* pairs, a call of step(dt) leaves the linear and the angular velocity of
\* every body unchanged and advances every movable body by v*dt.
C12_FreeFlight ==
  [][(/\ call'.op = "step"
      /\ worlds[call'.self].gravity = Origin
      /\ NoPairs(call'.self))
       => FreeFlight(call'.self, call'.arg)]_vars

\* C12 amended: in a world that is not paused, has zero gravity, holds no
\* accumulated force or torque, whose movable bodies all have non-zero
\* inertia, and whose broadphase returns no pairs, a call of step(dt) leaves
\* the linear and the angular velocity of every body unchanged and advances
\* the position of every movable body by exactly v*dt.
C12_FreeFlightUnforced ==
  [][(/\ call'.op = "step"
      /\ ~worlds[call'.self].paused
      /\ worlds[call'.self].gravity = Origin
      /\ ForcesZero(worlds[call'.self])
      /\ MovableHaveInertia(worlds[call'.self])
      /\ NoPairs(call'.self))
       => FreeFlight(call'.self, call'.arg)]_vars

\* C12 witness: the two spheres that started 3 apart, out of each other's
\* reach, have flown half a time unit towards each other at their speed 1
C12_Witness ==
  /\ call.op = "step" /\ ~call.threw /\ call.log = <<>>
  /\ worlds[call.self].gravity = Origin
  /\ worlds[call.self].stepnumber = 1
  /\ numObjects(worlds[call.self]) = 2
  /\ worlds[call.self].fixed[0] = 0 /\ worlds[call.self].fixed[1] = 0
  /\ worlds[call.self].x[0] = Lit(1, 2) /\ worlds[call.self].vx[0] = Lit(1, 1)
  /\ worlds[call.self].x[1] = Lit(5, 2) /\ worlds[call.self].vx[1] = Lit(-1, 1)

\* C13: the two lists NaiveBroadphase.collisionPairs returns have the same
\* length; at every place k the first list's index is a body of the world and
\* greater than the second's; and the pairs come in the order of the double
\* loop, strictly increasing in (i, j), so that no pair is listed twice.
C13_PairsOrdered ==
  (call.op = "collisionPairs" /\ ~call.threw) =>
    LET p1 == call.value.p1
        p2 == call.value.p2
    IN /\ Len(p1) = Len(p2)
       /\ \A k \in 1..Len(p1) :
            /\ p1[k] \in 1..(numObjects(worlds[call.self]) - 1)
            /\ p2[k] \in 0..(p1[k] - 1)
       /\ \A k \in 1..(Len(p1) - 1) :
            \/ p1[k] < p1[k + 1]
            \/ p1[k] = p1[k + 1] /\ p2[k] < p2[k + 1]
       /\ \A k, l \in 1..Len(p1) :
            {p1[k], p2[k]} = {p1[l], p2[l]} => k = l

\* C13 witness: the broadphase has returned all three pairs of a world of
\* three bodies, (1,0), (2,0), (2,1)
C13_Witness ==
  /\ call.op = "collisionPairs" /\ ~call.threw
  /\ numObjects(worlds[call.self]) = 3
  /\ call.value.p1 = <<1, 2, 2>>
  /\ call.value.p2 = <<0, 0, 1>>

\* every contact bit of the pairs of world record v that do not involve body i
\* is what it is in w
OtherPairsKept(w, v, i) ==
  \A k, l \in 0..(numObjects(w) - 1) :
    (k # l /\ k # i /\ l # i) =>
      /\ cmatrix(v, k, l, 0) = cmatrix(w, k, l, 0)
      /\ cmatrix(v, k, l, -1) = cmatrix(w, k, l, -1)

\* C14: clearCollisionState(body), as setPosition calls it for an attached
\* body, leaves the current-step and the previous-step contact bit of every
\* pair (body, k), k # body, at 0, and changes no bit of a pair without body.
C14_ClearsBothBits ==
  [][(call'.op = "setPosition" /\ Attached(bodies, call'.self)) =>
       LET i == bodies[call'.self]._id
           W == bodies[call'.self]._world
       IN /\ \A k \in 0..(numObjects(worlds[W]) - 1) :
               k # i => /\ cmatrix(worlds'[W], i, k, 0) = 0
                        /\ cmatrix(worlds'[W], i, k, -1) = 0
          /\ OtherPairsKept(worlds[W], worlds'[W], i)]_vars

\* bodies i and j of the world record w are a box and a plane
BoxPlanePair(w, i, j) ==
  \/ w.type[i] = BOX /\ w.type[j] = PLANE
  \/ w.type[i] = PLANE /\ w.type[j] = BOX

\* C15: after a step, the solver holds at most 4 contact rows for a box-plane
\* pair, however many of the box's 8 corners lie below the plane.
C15_AtMostFourCornerRows ==
  (call.op = "step" /\ ~call.threw) =>
    \A i, j \in 0..(numObjects(worlds[call.self]) - 1) :
      BoxPlanePair(worlds[call.self], i, j)
        => RowsOf(worlds[call.self].solver, i, j) <= 4

\* the per-body arrays of a world
BodyArrays ==
  {"x", "y", "z", "vx", "vy", "vz", "fx", "fy", "fz", "taux", "tauy", "tauz",
   "wx", "wy", "wz", "qx", "qy", "qz", "qw", "type", "fixed", "mass", "invm",
   "inertiax", "inertiay", "inertiaz"}

\* slot n of the world record v holds the in-record state of body
HoldsInRecord(v, n, body) ==
  /\ v.x[n] = body._position.x /\ v.y[n] = body._position.y /\ v.z[n] = body._position.z
  /\ v.vx[n] = body._velocity.x /\ v.vy[n] = body._velocity.y /\ v.vz[n] = body._velocity.z
  /\ v.fx[n] = body._force.x /\ v.fy[n] = body._force.y /\ v.fz[n] = body._force.z
  /\ v.taux[n] = body._tau.x /\ v.tauy[n] = body._tau.y /\ v.tauz[n] = body._tau.z
  /\ v.wx[n] = body._rotvelo.x /\ v.wy[n] = body._rotvelo.y /\ v.wz[n] = body._rotvelo.z
  /\ v.qx[n] = body._quaternion.x /\ v.qy[n] = body._quaternion.y
  /\ v.qz[n] = body._quaternion.z /\ v.qw[n] = body._quaternion.w
  /\ v.type[n] = body._shape.type
  /\ v.mass[n] = body._mass
  /\ v.inertiax[n] = body._inertia.x /\ v.inertiay[n] = body._inertia.y
  /\ v.inertiaz[n] = body._inertia.z

\* C16: add(body) on a world holding n bodies leaves every per-body array
\* entry of the bodies 0..n-1 as it was, and slot n then holds the in-record
\* state of the added body as it was when add was called.
C16_AddKeepsOthers ==
  [][call'.op = "add" =>
       LET w == worlds[call'.self]
           v == worlds'[call'.self]
           n == numObjects(w)
       IN /\ numObjects(v) = n + 1
          /\ \A f \in BodyArrays : \A i \in 0..(n - 1) : v[f][i] = w[f][i]
          /\ \A f \in BodyArrays : DOMAIN v[f] = 0..n
          /\ \A i \in 0..(n - 1) : v.body[i] = w.body[i]
          /\ v.body[n] = call'.arg
          /\ HoldsInRecord(v, n, bodies[call'.arg])]_vars

\* C16 witness: a body whose in-record position had been set has been added
\* to a world that held a body of another mass already
C16_Witness ==
  /\ call.op = "add"
  /\ numObjects(worlds[call.self]) = 2
  /\ worlds[call.self].body[1] = call.arg
  /\ worlds[call.self].body[0] # call.arg
  /\ worlds[call.self].x[1] = bodies[call.arg]._position.x
  /\ worlds[call.self].x[1] # 0
  /\ worlds[call.self].mass[0] # worlds[call.self].mass[1]

\* C17: when a step of a world that is not paused ends, by returning or by
\* throwing, the previous-step bit of every pair is the pair's current-step
\* bit of when the step began, and the current-step bit is 0 for every pair
\* the step found no contact for.
C17_HistoryRotated ==
  [][(call'.op = "step" /\ ~worlds[call'.self].paused) =>
       LET w == worlds[call'.self]
           v == worlds'[call'.self]
       IN \A i, j \in 0..(numObjects(w) - 1) :
            i # j =>
              /\ cmatrix(v, i, j, -1) = cmatrix(w, i, j, 0)
              /\ ~InContact(call'.log, i, j) => cmatrix(v, i, j, 0) = 0]_vars

\* C17 witness: a step has returned with no contact for a pair that was in
\* contact in the step before: the pair's previous bit is 1, its current bit 0
C17_Witness ==
  /\ call.op = "step" /\ ~call.threw /\ ~worlds[call.self].paused
  /\ worlds[call.self].stepnumber = 2
  /\ numObjects(worlds[call.self]) = 2
  /\ ~InContact(call.log, 0, 1)
  /\ cmatrix(worlds[call.self], 0, 1, -1) = 1
  /\ cmatrix(worlds[call.self], 0, 1, 0) = 0

\* a step that took the world record w to v and left log has used, for every
\* pair i < j of the n bodies, the slot cur(i,j) of collision_matrix for the
\* current-step bit and the slot prev(i,j) for the previous-step bit, where
\* cur = i + j*n and prev = j + i*n if stated, and the other way round if not:
\* the rotation copied cur to prev, the narrowphase wrote 1 to cur for the
\* sphere pairs it found in contact and left 0 there for the pairs without
\* contact, and it tested the bit the rotation had put in prev
StepUsesLayout(w, v, log, stated) ==
  \A i, j \in 0..(numObjects(w) - 1) :
    i < j =>
      LET n == numObjects(w)
          cur == IF stated THEN i + j * n ELSE j + i * n
          prev == IF stated THEN j + i * n ELSE i + j * n
      IN /\ v.collision_matrix[prev] = w.collision_matrix[cur]
         /\ (InContact(log, i, j) /\ SpherePair(w, i, j)) => v.collision_matrix[cur] = 1
         /\ ~InContact(log, i, j) => v.collision_matrix[cur] = 0
         /\ \A k \in 1..Len(log) :
              ({log[k].i, log[k].j} = {i, j} /\ log[k].prev # -1)
                => log[k].prev = w.collision_matrix[cur]

\* clearCollisionState for body b, which took the world record w to v, has
\* written 0 to the previous-step slot of every pair of b and has written to
\* no slot but those of b's pairs (and b's place on the diagonal)
ClearUsesLayout(w, v, b, stated) ==
  LET n == numObjects(w)
  IN /\ \A k \in 0..(n - 1) :
          k # b =>
            LET i == IF b < k THEN b ELSE k
                j == IF b < k THEN k ELSE b
            IN v.collision_matrix[IF stated THEN j + i * n ELSE i + j * n] = 0
     /\ \A c \in DOMAIN w.collision_matrix :
          v.collision_matrix[c] # w.collision_matrix[c]
            => \E k \in 0..(n - 1) : c = b + k * n \/ c = k + b * n

\* C18 as stated: for i < j the current-step bit is collision_matrix[i + j*N]
\* and the previous-step bit is collision_matrix[j + i*N], and step's
\* rotation, the narrowphase's set and test, and clearCollisionState use these
\* slots.
C18_LayoutAsStated ==
  [][/\ (call'.op = "step" /\ ~worlds[call'.self].paused)
          => StepUsesLayout(worlds[call'.self], worlds'[call'.self], call'.log, TRUE)
     /\ (call'.op = "setPosition" /\ Attached(bodies, call'.self))
          => ClearUsesLayout(worlds[bodies[call'.self]._world],
                             worlds'[bodies[call'.self]._world],
                             bodies[call'.self]._id, TRUE)]_vars

\* C18 amended: for i < j the current-step bit is collision_matrix[j + i*N]
\* and the previous-step bit is collision_matrix[i + j*N]; step's rotation
\* copies the first to the second, the narrowphase sets the first and tests
\* the second, and clearCollisionState writes 0 to the second and touches no
\* slot of a pair without the body.
C18_LayoutOfCode ==
  [][/\ (call'.op = "step" /\ ~worlds[call'.self].paused)
          => StepUsesLayout(worlds[call'.self], worlds'[call'.self], call'.log, FALSE)
     /\ (call'.op = "setPosition" /\ Attached(bodies, call'.self))
          => ClearUsesLayout(worlds[bodies[call'.self]._world],
                             worlds'[bodies[call'.self]._world],
                             bodies[call'.self]._id, FALSE)]_vars

\* C18 witness: a step has found the spheres 0 and 1 in first contact: of the
\* four slots, only collision_matrix[1 + 0*2] holds a 1
C18_Witness ==
  /\ call.op = "step" /\ ~worlds[call.self].paused
  /\ numObjects(worlds[call.self]) = 2
  /\ InContact(call.log, 0, 1) /\ SpherePair(worlds[call.self], 0, 1)
  /\ worlds[call.self].collision_matrix[1] = 1
  /\ worlds[call.self].collision_matrix[2] = 0

\* C19: after a step, the current-step contact bit is 1 for every pair the
\* narrowphase emitted a contact for in that step, whether the pair is two
\* spheres, a sphere and a plane or a box and a plane.
C19_ContactSetsCurrentBit ==
  call.op = "step" =>
    \A k \in 1..Len(call.log) :
      cmatrix(worlds[call.self], call.log[k].i, call.log[k].j, 0) = 1

\* the impulse J that solves K*J = v_f - u for the pair (i, j) of the world
\* record w, with K = (invm_i + invm_j) * identity and v_f = n*(-e*(u.n))
ImpulseJ(w, i, j, ui, ni, e) ==
  solve([k \in 0..8 |-> IF k \in {0, 4, 8} THEN FAdd(w.invm[i], w.invm[j]) ELSE 0],
        vsub(mult(ni, FMul(FNeg(e), dot(ui, ni))), ui))

\* C20: a call of the first-contact impulse handler that returns has changed
\* the velocity of body i by +J*invm_i and the velocity of body j by
\* -J*invm_j, where J solves K*J = v_f - u, and by nothing else.
C20_ImpulseIsJOverM ==
  [][(call'.op = "_addImpulse" /\ ~call'.threw) =>
       LET a == call'.arg
           w == worlds[call'.self]
           v == worlds'[call'.self]
           J == ImpulseJ(w, a.i, a.j, a.ui, a.ni, a.e)
       IN /\ Near(v.vx[a.i], FAdd(w.vx[a.i], FMul(J.x, w.invm[a.i])))
          /\ Near(v.vy[a.i], FAdd(w.vy[a.i], FMul(J.y, w.invm[a.i])))
          /\ Near(v.vz[a.i], FAdd(w.vz[a.i], FMul(J.z, w.invm[a.i])))
          /\ Near(v.vx[a.j], FSub(w.vx[a.j], FMul(J.x, w.invm[a.j])))
          /\ Near(v.vy[a.j], FSub(w.vy[a.j], FMul(J.y, w.invm[a.j])))
          /\ Near(v.vz[a.j], FSub(w.vz[a.j], FMul(J.z, w.invm[a.j])))]_vars

\* the flat-array slot of row l, entry s, and the body whose scratch velocity
\* the entry s of row l of the solver sv updates
Slot(l, s) == 12 * l + s
SlotBody(sv, l, s) == IF s < 6 THEN sv.i[l] ELSE sv.j[l]

\* the scratch velocity of the state st of a solve that entry s of a row is about
Scratch(st, s) ==
  IF s % 6 = 0 THEN st.vxlambda ELSE IF s % 6 = 1 THEN st.vylambda
  ELSE IF s % 6 = 2 THEN st.vzlambda ELSE IF s % 6 = 3 THEN st.wxlambda
  ELSE IF s % 6 = 4 THEN st.wylambda ELSE st.wzlambda

\* C21: every row update of Solver.solve changes the scratch velocity of each
\* of the row's twelve slots by (lambda[l] after the update minus lambda[l]
\* before it) * Minv[l,s] * G[l,s], also when the multiplier was clamped.
C21_ScratchFollowsLambda ==
  call.op = "solve" =>
    \A e \in 1..Len(call.log) :
      LET u == call.log[e]
          sv == worlds[call.self].solver
          dl == FSub(u.after.lambda[u.l], u.before.lambda[u.l])
      IN \A s \in 0..11 :
           Scratch(u.after, s)[SlotBody(sv, u.l, s)]
             = FAdd(Scratch(u.before, s)[SlotBody(sv, u.l, s)],
                    FMul(FMul(dl, sv.MinvTrace[Slot(u.l, s)]), sv.G[Slot(u.l, s)]))

\* the solver of world w as step handed it to solve: the rows step has added,
\* and the scratch velocities as reset(numObjects) left them
BeforeSolve(sv) ==
  [sv EXCEPT !.vxlambda = Arr(ArrLen(@), 0), !.vylambda = Arr(ArrLen(@), 0),
             !.vzlambda = Arr(ArrLen(@), 0), !.wxlambda = Arr(ArrLen(@), 0),
             !.wylambda = Arr(ArrLen(@), 0), !.wzlambda = Arr(ArrLen(@), 0)]

\* the row updates of the solve that the last step of world w has made
StepTrace(w) ==
  LET Traced(sv) == SolveTrace(sv, SolveStart(sv), 0, 0, <<>>)
  IN Traced(BeforeSolve(worlds[w].solver))

\* lambda[l] after the addition of dlambda[l] and before the clamp
RawLambda(sv, st, l) ==
  FAdd(st.lambda[l],
       FMul(RowC(sv, l),
            FSub(FSub(RowB(sv, l), Gulambda(sv, st, l, sv.i[l], sv.j[l])),
                 FMul(sv.eps, st.lambda[l]))))

\* C22: in the solve of a step, the multiplier of every contact row is at
\* least 0 after every row update of every sweep, and it is never clamped from
\* above: it is the unclamped value whenever that value is at least 0.
C22_ContactLambdaNonNegative ==
  (call.op = "step" /\ ~call.threw /\ worlds[call.self].solver.n > 0) =>
    LET Holds(tr) ==
          \A e \in 1..Len(tr) :
            LET Row(raw, lam) == FLe(0, lam) /\ (FLe(0, raw) => lam = raw)
            IN Row(RawLambda(BeforeSolve(worlds[call.self].solver), tr[e].before, tr[e].l),
                   tr[e].after.lambda[tr[e].l])
    IN Holds(StepTrace(call.self))

\* lambda clamped with the bounds and flags that addConstraint has stored for
\* row l (its twelve copies start at 12 * l)
OwnClamp(sv, l, raw) ==
  IF sv.haslower[Slot(l, 0)] /\ FLt(raw, sv.lower[Slot(l, 0)]) THEN sv.lower[Slot(l, 0)]
  ELSE IF sv.hasupper[Slot(l, 0)] /\ FGt(raw, sv.upper[Slot(l, 0)]) THEN sv.upper[Slot(l, 0)]
  ELSE raw

\* C23: every row update of Solver.solve leaves lambda[l] at the unclamped
\* value clamped with the lower bound, the upper bound and the flags that were
\* passed to the addConstraint call of row l, also when the rows have
\* different bounds.
C23_RowUsesOwnBounds ==
  call.op = "solve" =>
    \A e \in 1..Len(call.log) :
      call.log[e].after.lambda[call.log[e].l]
        = OwnClamp(worlds[call.self].solver, call.log[e].l,
                   RawLambda(worlds[call.self].solver, call.log[e].before, call.log[e].l))

\* C24: after a step, in every row the step has added to the solver, the
\* three linear and the three angular Minv entries of a fixed body are 0.
C24_FixedBodyMinvZero ==
  (call.op = "step" /\ ~worlds[call.self].paused) =>
    \A l \in 0..(worlds[call.self].solver.n - 1) : \A s \in 0..11 :
      worlds[world].fixed[SlotBody(worlds[call.self].solver, l, s)] # 0
        => worlds[call.self].solver.MinvTrace[Slot(l, s)] = 0

\* the places of the pair of bodies a and b in the broadphase pair list
PairIndexes(pairs, a, b) ==
  {k \in 1..Len(pairs.p1) : {pairs.p1[k], pairs.p2[k]} = {a, b}}

\* step, box-plane pair, corner idx (counted from 1 here) of box bi against
\* plane pi in the world record g: ri x n, the penetration vector n * q, and q
CornerData(g, bs, bi, pi, idx) ==
  LET n == negate(bs[g.body[pi]]._shape.normal)
      xi == Vec3(g.x[bi], g.y[bi], g.z[bi])
      half == Lit(1, 2)
      Contact(ri, qvec0) ==
        [rixn |-> cross(ri, n), qvec |-> mult(n, dot(qvec0, n)), q |-> dot(qvec0, n)]
      Projected(ri, xj) ==
        Contact(ri, Vec3(FSub(FSub(xj.x, g.x[bi]), FMul(ri.x, half)),
                         FSub(FSub(xj.y, g.y[bi]), FMul(ri.y, half)),
                         FSub(FSub(xj.z, g.z[bi]), FMul(ri.z, half))))
      Corner(ri) ==
        Projected(ri, vsub(xi, mult(n, dot(n,
          Vec3(FSub(FAdd(xi.x, FMul(ri.x, half)), g.x[pi]),
               FSub(FAdd(xi.y, FMul(ri.y, half)), g.y[pi]),
               FSub(FAdd(xi.z, FMul(ri.z, half)), g.z[pi]))))))
  IN Corner(qvmult(qnormalize(Quaternion(g.qx[bi], g.qy[bi], g.qz[bi], g.qw[bi])),
                   Corners(bs[g.body[bi]]._shape.halfExtents)[idx]))

\* row l of the solver sv is the row step adds for the corner with data cd
RowIsCorner(sv, l, cd) ==
  /\ sv.G[Slot(l, 3)] = FNeg(cd.rixn.x) /\ sv.G[Slot(l, 4)] = FNeg(cd.rixn.y)
  /\ sv.G[Slot(l, 5)] = FNeg(cd.rixn.z)
  /\ sv.q[Slot(l, 0)] = FNeg(cd.qvec.x) /\ sv.q[Slot(l, 1)] = FNeg(cd.qvec.y)
  /\ sv.q[Slot(l, 2)] = FNeg(cd.qvec.z)

\* the corners of the box of row l whose row the row l of sv can be
CornersOfRow(g, bs, sv, l) ==
  {c \in 1..8 : RowIsCorner(sv, l, CornerData(g, bs, sv.i[l], sv.j[l], c))}

\* the rows of sv are in the order of the pair list, and the rows of a
\* box-plane pair in the order of the box's corners
RowsInPairOrder(g, bs, pairs, sv) ==
  /\ \A l \in 0..(sv.n - 1) : PairIndexes(pairs, sv.i[l], sv.j[l]) # {}
  /\ \A l, m \in 0..(sv.n - 1) :
       l < m => /\ \A kl \in PairIndexes(pairs, sv.i[l], sv.j[l]),
                      km \in PairIndexes(pairs, sv.i[m], sv.j[m]) : kl <= km
                /\ (g.type[sv.i[l]] = BOX /\ sv.i[l] = sv.i[m] /\ sv.j[l] = sv.j[m])
                     => /\ CornersOfRow(g, bs, sv, l) # {}
                        /\ CornersOfRow(g, bs, sv, m) # {}
                        /\ \A cl \in CornersOfRow(g, bs, sv, l),
                              cm \in CornersOfRow(g, bs, sv, m) : cl < cm

\* the row updates tr of a solve of sv go through the rows in ascending row
\* index, once in each of the iter sweeps
SweepsAscending(sv, tr) ==
  /\ Len(tr) = sv.iter * sv.n
  /\ \A e \in 1..Len(tr) : tr[e].k = (e - 1) \div sv.n /\ tr[e].l = (e - 1) % sv.n

\* C25: in a step, the rows are created in the order of the broadphase pair
\* list (no row of a later pair before a row of an earlier pair), the rows of
\* a box-plane pair in corner order, and every sweep of the solve updates the
\* rows in ascending row index.
C25_RowsInPairOrder ==
  /\ [][(call'.op = "step" /\ ~worlds[call'.self].paused
           /\ worlds'[call'.self].solver.n > 0) =>
          RowsInPairOrder(worlds[world], bodies,
                          collisionPairs(worlds[call'.self], bodies),
                          worlds'[call'.self].solver)]_vars
  /\ [](call.op = "step" /\ ~call.threw /\ worlds[call.self].solver.n > 0
          => SweepsAscending(worlds[call.self].solver, StepTrace(call.self)))

\* C25 witness: a step has added rows for two pairs, several of them for one
\* box-plane pair, and has solved them
C25_Witness ==
  /\ call.op = "step" /\ ~call.threw
  /\ \E l, m \in 0..(worlds[call.self].solver.n - 1) :
       /\ l < m
       /\ {worlds[call.self].solver.i[l], worlds[call.self].solver.j[l]}
            # {worlds[call.self].solver.i[m], worlds[call.self].solver.j[m]}
  /\ \E l, m \in 0..(worlds[call.self].solver.n - 1) :
       /\ l < m
       /\ worlds[world].type[worlds[call.self].solver.i[l]] = BOX
       /\ worlds[call.self].solver.i[l] = worlds[call.self].solver.i[m]
       /\ worlds[call.self].solver.j[l] = worlds[call.self].solver.j[m]

\* C26: the step that follows a setPosition call on a body attached to the
\* stepped world resolves every sphere-sphere and sphere-plane contact of that
\* body as a first contact, by the impulse and not by a solver row.
C26_SetPositionMakesFirstContact ==
  [][(/\ call.op = "setPosition"
      /\ call'.op = "step"
      /\ bodies[call.self]._world = call'.self
      /\ ~worlds[call'.self].paused) =>
       \A e \in 1..Len(call'.log) :
         (/\ bodies[call.self]._id \in {call'.log[e].i, call'.log[e].j}
          /\ SpherePair(worlds[world], call'.log[e].i, call'.log[e].j))
           => call'.log[e].kind = "impulse"]_vars

\* C27: when add returns, the collision matrix of the world has N * N
\* entries, N the number of bodies the world then holds, and all are 0; and
\* the step that follows the add resolves every sphere-sphere and sphere-plane
\* pair it finds penetrating by one first-contact impulse and no solver row.
C27_AddClearsHistory ==
  [][/\ call'.op = "add" =>
          /\ ArrLen(worlds'[call'.self].collision_matrix)
               = numObjects(worlds'[call'.self]) * numObjects(worlds'[call'.self])
          /\ \A k \in DOMAIN worlds'[call'.self].collision_matrix :
               worlds'[call'.self].collision_matrix[k] = 0
     /\ (call.op = "add" /\ call'.op = "step" /\ call'.self = call.self
           /\ ~worlds[call.self].paused) =>
          \A e \in 1..Len(call'.log) :
            SpherePair(worlds[world], call'.log[e].i, call'.log[e].j) =>
              /\ call'.log[e].kind = "impulse"
              /\ ImpulsesOf(call'.log, call'.log[e].i, call'.log[e].j) = 1
              /\ RowsOf(worlds'[call'.self].solver, call'.log[e].i, call'.log[e].j) = 0]_vars

\* C27 witness: a world that was given a third body has, in its second step,
\* resolved by the impulse a contact of the two bodies it held from the start
C27_Witness ==
  /\ call.op = "step" /\ steps[call.self] = 2
  /\ numObjects(worlds[call.self]) = 3
  /\ worlds[call.self].stepnumber = 2
  /\ \E e \in 1..Len(call.log) :
       /\ {call.log[e].i, call.log[e].j} = {0, 1}
       /\ call.log[e].kind = "impulse"

\* C28: a call of step leaves the linear and the angular velocity of every
\* body whose fixed flag is 1 as they were.
C28_FixedBodyKeepsVelocity ==
  [][call'.op = "step" =>
       \A i \in 0..(numObjects(worlds[world]) - 1) :
         worlds[world].fixed[i] = 1 => SameVelocities(worlds[world], worlds'[world], i)]_vars

\* the state of the world record v that a failed step has to leave as it is
\* in w: forces, torques, the collision matrix, velocities, positions,
\* orientations, time and stepnumber
SameWorldState(w, v) ==
  /\ \A f \in {"fx", "fy", "fz", "taux", "tauy", "tauz", "vx", "vy", "vz", "wx", "wy",
               "wz", "x", "y", "z", "qx", "qy", "qz", "qw", "collision_matrix"} :
       v[f] = w[f]
  /\ v.time = w.time /\ v.stepnumber = w.stepnumber

\* C29: a step that raises the could-not-solve error from the first-contact
\* impulse leaves forces, the collision matrix, velocities, positions, time
\* and stepnumber as they were before the call.
C29_FailedStepLeavesWorld ==
  [][(/\ call'.op = "step" /\ call'.threw
      /\ Len(call'.log) > 0
      /\ call'.log[Len(call'.log)].kind = "impulse") =>
       /\ SameWorldState(worlds[world], worlds'[world])
       /\ worlds'[call'.self].collision_matrix = worlds[call'.self].collision_matrix]_vars

\* step, sphere-plane pair: the penetration q of sphere si and plane pi in the
\* world record g
SpherePlaneDepth(g, bs, si, pi) ==
  LET point_on_plane_to_sphere ==
        Vec3(FSub(g.x[si], g.x[pi]), FSub(g.y[si], g.y[pi]), FSub(g.z[si], g.z[pi]))
      xs == Vec3(g.x[si], g.y[si], g.z[si])
      Projected(n, rsi, xp) ==
        dot(Vec3(FSub(FSub(xp.x, g.x[si]), rsi.x), FSub(FSub(xp.y, g.y[si]), rsi.y),
                 FSub(FSub(xp.z, g.z[si]), rsi.z)), n)
      Normal(n) ==
        Projected(n, mult(n, bs[g.body[si]]._shape.radius),
                  vsub(xs, mult(n, dot(n, point_on_plane_to_sphere))))
  IN Normal(negate(bs[g.body[pi]]._shape.normal))

\* step, sphere-sphere pair: the penetration q of spheres i and j
SphereSphereDepth(g, bs, i, j) ==
  LET ri0 == Vec3(FSub(g.x[j], g.x[i]), FSub(g.y[j], g.y[i]), FSub(g.z[j], g.z[i]))
      rj0 == Vec3(FSub(g.x[i], g.x[j]), FSub(g.y[i], g.y[j]), FSub(g.z[i], g.z[j]))
      Radii(ri, rj, ni) ==
        dot(Vec3(FSub(FSub(FAdd(g.x[j], rj.x), g.x[i]), ri.x),
                 FSub(FSub(FAdd(g.y[j], rj.y), g.y[i]), ri.y),
                 FSub(FSub(FAdd(g.z[j], rj.z), g.z[i]), ri.z)), ni)
  IN Radii(mult(normalize(ri0), bs[g.body[i]]._shape.radius),
           mult(normalize(rj0), bs[g.body[j]]._shape.radius),
           normalize(ri0))

\* the penetration test of step finds q < 0 for the pair of bodies i and j
\* (for a box and a plane: for one of the box's corners)
NarrowphaseHit(g, bs, i, j) ==
  IF g.type[i] = SPHERE /\ g.type[j] = SPHERE
  THEN FLt(SphereSphereDepth(g, bs, i, j), 0)
  ELSE IF g.type[i] = SPHERE /\ g.type[j] = PLANE THEN FLt(SpherePlaneDepth(g, bs, i, j), 0)
  ELSE IF g.type[i] = PLANE /\ g.type[j] = SPHERE THEN FLt(SpherePlaneDepth(g, bs, j, i), 0)
  ELSE IF g.type[i] = BOX /\ g.type[j] = PLANE
  THEN \E c \in 1..8 : FLt(CornerData(g, bs, i, j, c).q, 0)
  ELSE IF g.type[i] = PLANE /\ g.type[j] = BOX
  THEN \E c \in 1..8 : FLt(CornerData(g, bs, j, i, c).q, 0)
  ELSE FALSE

\* C30: the lists NaiveBroadphase.collisionPairs returns hold every pair of
\* bodies (i, j), j < i, for which the penetration test of step yields q < 0.
C30_BroadphaseFindsContacts ==
  (call.op = "collisionPairs" /\ ~call.threw) =>
    \A i \in 0..(numObjects(worlds[call.self]) - 1) : \A j \in 0..(i - 1) :
      NarrowphaseHit(worlds[call.self], bodies, i, j)
        => PairIndexes(call.value, i, j) # {}

\* C30 witness: of the pairs of a world of three bodies, the broadphase has
\* returned one that penetrates and one that does not, and has left one out
C30_Witness ==
  /\ call.op = "collisionPairs" /\ ~call.threw
  /\ numObjects(worlds[call.self]) = 3
  /\ \E i, j \in 0..2 : /\ j < i
                        /\ NarrowphaseHit(worlds[call.self], bodies, i, j)
                        /\ PairIndexes(call.value, i, j) # {}
  /\ \E i, j \in 0..2 : /\ j < i
                        /\ ~NarrowphaseHit(worlds[call.self], bodies, i, j)
                        /\ PairIndexes(call.value, i, j) # {}
  /\ \E i, j \in 0..2 : j < i /\ PairIndexes(call.value, i, j) = {}

====
